---- MODULE Spec2Model ----
(***************************************************************************)
(* Polytope generation engine of RedstoneWizard22/4D:                      *)
(*   - CosetTable  (utils/geometry/polygen/coset-table.ts): Todd-Coxeter   *)
(*     coset enumeration with the HLT strategy,                            *)
(*   - parsePlaintextCoxeterDiagram (utils/geometry/polygen/parser.ts),    *)
(*   - polygen     (utils/geometry/polygen/polygen.ts).                    *)
(*                                                                         *)
(* Cosets and generators are numbered from 0 as in the source; TLA+        *)
(* sequences are numbered from 1, so row c of the table is table[c + 1]    *)
(* and letter i of a word is word[i + 1].  An undefined table entry is     *)
(* Undef.  Strings are sequences of one-character strings.                 *)
(***************************************************************************)
EXTENDS Integers, Sequences, FiniteSets, TLC

(***************************************************************************)
(* Bounds of the model                                                      *)
(***************************************************************************)
\* largest Coxeter label of the presentations a client constructs
MaxLabel == 4
\* solve(MAX_ITER) is called with MAX_ITER in 0..MaxSmallIter or the default
MaxSmallIter == 4
\* number of solve() calls a client makes on one table
MaxSolveCalls == 2
\* rows a table may grow to before the model stops defining new cosets
MaxCosets == 64

(***************************************************************************)
(* Program constants                                                        *)
(***************************************************************************)
\* default argument of solve()
DefaultMaxIter == 100000
\* char code of 'a', used by the parser's virtual-node arithmetic
CharCodeA == 97

Undef == -1

(***************************************************************************)
(* Characters and strings                                                   *)
(***************************************************************************)
LowerLetters ==
  <<"a","b","c","d","e","f","g","h","i","j","k","l","m",
    "n","o","p","q","r","s","t","u","v","w","x","y","z">>
UpperLetters ==
  <<"A","B","C","D","E","F","G","H","I","J","K","L","M",
    "N","O","P","Q","R","S","T","U","V","W","X","Y","Z">>

Range(s) == { s[i] : i \in 1..Len(s) }

IndexOf(s, c) == IF c \in Range(s) THEN CHOOSE i \in 1..Len(s) : s[i] = c ELSE 0

\* String.prototype.toLowerCase / toUpperCase on one character
toLowerCase(c) == IF c \in Range(UpperLetters) THEN LowerLetters[IndexOf(UpperLetters, c)] ELSE c
toUpperCase(c) == IF c \in Range(LowerLetters) THEN UpperLetters[IndexOf(LowerLetters, c)] ELSE c

\* String.prototype.repeat
RECURSIVE repeat(_, _)
repeat(w, k) == IF k <= 0 THEN << >> ELSE w \o repeat(w, k - 1)

\* the single element of a one-element set.  Only({ F(x) : x \in {e} }) is
\* F(e) with e computed once, where LET x == e IN F(x) computes e at every
\* use of x
Only(S) == CHOOSE v \in S : TRUE

Min(a, b) == IF a < b THEN a ELSE b
Max(a, b) == IF a > b THEN a ELSE b

(***************************************************************************)
(* CosetTable: constructor                                                  *)
(***************************************************************************)
\* the alphabet the constructor builds from `generators`: each new lowercased
\* character once, followed by its uppercase variant when not isCoxeter
RECURSIVE buildAlphabet(_, _, _, _)
buildAlphabet(generators, i, coxeter, acc) ==
  IF i > Len(generators) THEN acc
  ELSE LET c == toLowerCase(generators[i])
       IN  IF c \in Range(acc) THEN buildAlphabet(generators, i + 1, coxeter, acc)
           ELSE buildAlphabet(generators, i + 1, coxeter,
                  IF coxeter THEN Append(acc, c) ELSE acc \o <<c, toUpperCase(c)>>)

\* char2int.get(c): the index of c in the alphabet, Undef when absent
char2int(alpha, c) == IF c \in Range(alpha) THEN IndexOf(alpha, c) - 1 ELSE Undef

\* a word of characters as the integer array the constructor stores
wordToInt(alpha, w) == [i \in 1..Len(w) |-> char2int(alpha, w[i])]

\* the constructor throws when a word uses a character outside the alphabet,
\* or when a generator has no uppercase variant
validWord(alpha, w) == \A i \in 1..Len(w) : w[i] \in Range(alpha)

constructorThrows(generators, rels, subs, coxeter) ==
  LET alpha == buildAlphabet(generators, 1, coxeter, << >>)
  IN  \/ ~coxeter /\ \E i \in 1..Len(generators) :
             toUpperCase(toLowerCase(generators[i])) = toLowerCase(generators[i])
      \/ \E i \in 1..Len(rels) : ~validWord(alpha, rels[i])
      \/ \E i \in 1..Len(subs) : ~validWord(alpha, subs[i])

\* Array(genCount).fill(undefined)
emptyRow(n) == [g \in 1..n |-> Undef]

(***************************************************************************)
(* CosetTable: primitive operations as functions of the fields they touch   *)
(***************************************************************************)
\* _inv: identity for self-inverse generators, g ^ 1 otherwise
inv(coxeter, g) == IF coxeter THEN g ELSE IF g % 2 = 0 THEN g + 1 ELSE g - 1

\* _deduce gone wrong: only table[cosetA][gen] = cosetB is written
deduceOneWay(t, coxeter, cosetA, cosetB, gen) == [t EXCEPT ![cosetA + 1][gen + 1] = cosetB]

\* _deduce: table[cosetA][gen] = cosetB; table[cosetB][inv(gen)] = cosetA
deduce(t, coxeter, cosetA, cosetB, gen) ==
  LET t1 == [t EXCEPT ![cosetA + 1][gen + 1] = cosetB]
  IN  [t1 EXCEPT ![cosetB + 1][inv(coxeter, gen) + 1] = cosetA]

\* _define, table part: push an empty row n, then deduce(coset, n, gen)
define(t, coxeter, coset, gen) ==
  deduce(Append(t, emptyRow(Len(t[1]))), coxeter, coset, Len(t), gen)

\* _isAlive
isAlive(eq, coset) == eq[coset + 1] = coset

\* _rep, first loop: follow the equivalence chain to its root
RECURSIVE repRoot(_, _)
repRoot(eq, r) == IF r = eq[r + 1] THEN r ELSE repRoot(eq, eq[r + 1])

\* _rep, second loop: path compression, every coset on the chain points to r
RECURSIVE repCompress(_, _, _)
repCompress(eq, c, r) ==
  IF c = r THEN eq ELSE repCompress([eq EXCEPT ![c + 1] = r], eq[c + 1], r)

\* _rep: the root and the compressed equivalence array
rep(eq, coset) ==
  LET r == repRoot(eq, coset)
  IN  [r |-> r, eq |-> repCompress(eq, coset, r)]

\* _merge gone wrong: the smaller representative dies
mergeKeepLarger(eq, dq, cosetA, cosetB) ==
  LET ra == rep(eq, cosetA)
      rb == rep(ra.eq, cosetB)
      a  == ra.r
      b  == rb.r
  IN  IF a # b
      THEN [eq |-> [rb.eq EXCEPT ![Min(a, b) + 1] = Max(a, b)],
            dq |-> Append(dq, Min(a, b))]
      ELSE [eq |-> rb.eq, dq |-> dq]

\* _merge: the larger representative dies and joins the dead queue
merge(eq, dq, cosetA, cosetB) ==
  LET ra == rep(eq, cosetA)
      rb == rep(ra.eq, cosetB)
      a  == ra.r
      b  == rb.r
  IN  IF a # b
      THEN [eq |-> [rb.eq EXCEPT ![Max(a, b) + 1] = Min(a, b)],
            dq |-> Append(dq, Max(a, b))]
      ELSE [eq |-> rb.eq, dq |-> dq]

\* _coincidence gone wrong: the copy to the representatives is written one way
coincidenceStepOneWayCopy(t, eq, dq, coxeter, dead, g) ==
  LET next == t[dead + 1][g + 1]
  IN  IF next = Undef THEN [table |-> t, eq |-> eq, dq |-> dq]
      ELSE LET ig == inv(coxeter, g)
               \* delete next's reference to the dead coset
               t1 == [t EXCEPT ![next + 1][ig + 1] = Undef]
               rd == rep(eq, dead)
               rn == rep(rd.eq, next)
               deadRep == rd.r
               nextRep == rn.r
               existingNext == t1[deadRep + 1][g + 1]
               existingDead == t1[nextRep + 1][ig + 1]
           IN  IF existingNext # Undef /\ existingNext # nextRep
               THEN LET m == merge(rn.eq, dq, nextRep, existingNext)
                    IN  [table |-> t1, eq |-> m.eq, dq |-> m.dq]
               ELSE IF existingDead # Undef /\ existingDead # deadRep
               THEN LET m == merge(rn.eq, dq, deadRep, existingDead)
                    IN  [table |-> t1, eq |-> m.eq, dq |-> m.dq]
               ELSE [table |-> deduceOneWay(t1, coxeter, deadRep, nextRep, g),
                     eq |-> rn.eq, dq |-> dq]

\* _coincidence gone wrong: next's reference to the dead coset is not deleted
coincidenceStepNoDetach(t, eq, dq, coxeter, dead, g) ==
  LET next == t[dead + 1][g + 1]
  IN  IF next = Undef THEN [table |-> t, eq |-> eq, dq |-> dq]
      ELSE LET ig == inv(coxeter, g)
               \* delete next's reference to the dead coset
               t1 == t
               rd == rep(eq, dead)
               rn == rep(rd.eq, next)
               deadRep == rd.r
               nextRep == rn.r
               existingNext == t1[deadRep + 1][g + 1]
               existingDead == t1[nextRep + 1][ig + 1]
           IN  IF existingNext # Undef /\ existingNext # nextRep
               THEN LET m == merge(rn.eq, dq, nextRep, existingNext)
                    IN  [table |-> t1, eq |-> m.eq, dq |-> m.dq]
               ELSE IF existingDead # Undef /\ existingDead # deadRep
               THEN LET m == merge(rn.eq, dq, deadRep, existingDead)
                    IN  [table |-> t1, eq |-> m.eq, dq |-> m.dq]
               ELSE [table |-> deduce(t1, coxeter, deadRep, nextRep, g),
                     eq |-> rn.eq, dq |-> dq]

\* _coincidence gone wrong: the entry of the dead coset is not copied to the
\* representatives
coincidenceStepNoCopy(t, eq, dq, coxeter, dead, g) ==
  LET next == t[dead + 1][g + 1]
  IN  IF next = Undef THEN [table |-> t, eq |-> eq, dq |-> dq]
      ELSE LET ig == inv(coxeter, g)
               \* delete next's reference to the dead coset
               t1 == [t EXCEPT ![next + 1][ig + 1] = Undef]
               rd == rep(eq, dead)
               rn == rep(rd.eq, next)
               deadRep == rd.r
               nextRep == rn.r
               existingNext == t1[deadRep + 1][g + 1]
               existingDead == t1[nextRep + 1][ig + 1]
           IN  IF existingNext # Undef /\ existingNext # nextRep
               THEN LET m == merge(rn.eq, dq, nextRep, existingNext)
                    IN  [table |-> t1, eq |-> m.eq, dq |-> m.dq]
               ELSE IF existingDead # Undef /\ existingDead # deadRep
               THEN LET m == merge(rn.eq, dq, deadRep, existingDead)
                    IN  [table |-> t1, eq |-> m.eq, dq |-> m.dq]
               ELSE [table |-> t1,
                     eq |-> rn.eq, dq |-> dq]

\* one pass of the inner loop of _coincidence: generator g of the dead coset
coincidenceStep(t, eq, dq, coxeter, dead, g) ==
  LET next == t[dead + 1][g + 1]
  IN  IF next = Undef THEN [table |-> t, eq |-> eq, dq |-> dq]
      ELSE LET ig == inv(coxeter, g)
               \* delete next's reference to the dead coset
               t1 == [t EXCEPT ![next + 1][ig + 1] = Undef]
               rd == rep(eq, dead)
               rn == rep(rd.eq, next)
               deadRep == rd.r
               nextRep == rn.r
               existingNext == t1[deadRep + 1][g + 1]
               existingDead == t1[nextRep + 1][ig + 1]
           IN  IF existingNext # Undef /\ existingNext # nextRep
               THEN LET m == merge(rn.eq, dq, nextRep, existingNext)
                    IN  [table |-> t1, eq |-> m.eq, dq |-> m.dq]
               ELSE IF existingDead # Undef /\ existingDead # deadRep
               THEN LET m == merge(rn.eq, dq, deadRep, existingDead)
                    IN  [table |-> t1, eq |-> m.eq, dq |-> m.dq]
               ELSE [table |-> deduce(t1, coxeter, deadRep, nextRep, g),
                     eq |-> rn.eq, dq |-> dq]

\* _scanAndFill, forward scan: follow defined entries from lv while lp <= rp
RECURSIVE scanForward(_, _, _, _, _)
scanForward(t, word, lv, lp, rp) ==
  IF lp <= rp /\ t[lv + 1][word[lp + 1] + 1] # Undef
  THEN scanForward(t, word, t[lv + 1][word[lp + 1] + 1], lp + 1, rp)
  ELSE [v |-> lv, p |-> lp]

\* _scanAndFill, backward scan: follow inverse entries from rv while rp >= lp
RECURSIVE scanBackward(_, _, _, _, _, _)
scanBackward(t, coxeter, word, rv, rp, lp) ==
  IF rp >= lp /\ t[rv + 1][inv(coxeter, word[rp + 1]) + 1] # Undef
  THEN scanBackward(t, coxeter, word, t[rv + 1][inv(coxeter, word[rp + 1]) + 1], rp - 1, lp)
  ELSE [v |-> rv, p |-> rp]

\* _compress, the loop over the cosets from `coset` on, `ind` rows kept so far;
\* stops with thrown = TRUE at an undefined entry of a row that has to move
\* _compress gone wrong: an entry that points to its own row is copied like
\* any other entry
RECURSIVE compressRowNoSelfLoop(_, _, _, _, _, _)
compressRowNoSelfLoop(t, coxeter, coset, ind, g, n) ==
  IF g >= n THEN [table |-> t, thrown |-> FALSE]
  ELSE IF t[coset + 1][g + 1] = Undef THEN [table |-> t, thrown |-> TRUE]
  ELSE Only({ compressRowNoSelfLoop(t1, coxeter, coset, ind, g + 1, n) :
               t1 \in { deduce(t, coxeter, ind, t[coset + 1][g + 1], g) } })

RECURSIVE compressRow(_, _, _, _, _, _)
compressRow(t, coxeter, coset, ind, g, n) ==
  IF g >= n THEN [table |-> t, thrown |-> FALSE]
  ELSE IF t[coset + 1][g + 1] = Undef THEN [table |-> t, thrown |-> TRUE]
  ELSE Only({ compressRow(t1, coxeter, coset, ind, g + 1, n) :
               t1 \in { IF t[coset + 1][g + 1] = coset
                        THEN [t EXCEPT ![ind + 1][g + 1] = ind]
                        ELSE deduce(t, coxeter, ind, t[coset + 1][g + 1], g) } })

RECURSIVE compressFrom(_, _, _, _, _)
compressFrom(t, eq, coxeter, coset, ind) ==
  IF coset >= Len(t) THEN [table |-> t, ind |-> ind, thrown |-> FALSE]
  ELSE IF ~isAlive(eq, coset) THEN compressFrom(t, eq, coxeter, coset + 1, ind)
  ELSE IF ind + 1 = coset THEN compressFrom(t, eq, coxeter, coset + 1, ind + 1)
  ELSE Only({ IF r.thrown THEN [table |-> r.table, ind |-> ind + 1, thrown |-> TRUE]
              ELSE compressFrom(r.table, eq, coxeter, coset + 1, ind + 1) :
               r \in { compressRow(t, coxeter, coset, ind + 1, 0, Len(t[1])) } })

\* _compress gone wrong: the dead rows are kept and nothing is renumbered
compressKeepsDead(t, eq, coxeter) == [table |-> t, eq |-> eq, thrown |-> FALSE]

\* _compress: the renumbered table cut to the living cosets and the identity
\* equivalence array; on a throw the fields are left as the loop left them
compress(t, eq, coxeter) ==
  Only({ IF r.thrown THEN [table |-> r.table, eq |-> eq, thrown |-> TRUE]
         ELSE [table |-> SubSeq(r.table, 1, r.ind + 1),
               eq |-> [i \in 1..(r.ind + 1) |-> i - 1],
               thrown |-> FALSE] :
          r \in { compressFrom(t, eq, coxeter, 0, -1) } })

(***************************************************************************)
(* CosetTable: queries                                                      *)
(***************************************************************************)
\* getEntry(coset, gen)
getEntry(t, coset, gen) == t[coset + 1][gen + 1]

\* get length
length(t) == Len(t)

\* applyWord(coset, word): throws on a character outside the alphabet and on
\* an undefined entry
RECURSIVE applyWord(_, _, _, _, _)
applyWord(t, alpha, coset, word, i) ==
  IF i > Len(word) THEN [thrown |-> FALSE, value |-> coset]
  ELSE LET g == char2int(alpha, word[i])
       IN  IF g = Undef \/ coset < 0 \/ coset >= Len(t) THEN [thrown |-> TRUE, value |-> Undef]
           ELSE IF t[coset + 1][g + 1] = Undef THEN [thrown |-> TRUE, value |-> Undef]
           ELSE applyWord(t, alpha, t[coset + 1][g + 1], word, i + 1)

\* a slot of the result array of getRepresentatives that was never assigned,
\* as an integer array and as a string
Hole == <<Undef>>
HoleWord == <<"<empty>">>

\* result[next] = word on a JavaScript array: the array grows to next + 1
setAt(result, idx, word) ==
  [i \in 1..Max(Len(result), idx + 1) |->
     IF i = idx + 1 THEN word ELSE IF i <= Len(result) THEN result[i] ELSE Hole]

\* the search loop gone wrong: the generator is put in front of the word of
\* the coset it was reached from
RECURSIVE representativesLoopPrepend(_, _, _, _, _)
representativesLoopPrepend(t, coxeter, result, q, g) ==
  IF q = << >> THEN [thrown |-> FALSE, result |-> result]
  ELSE LET coset == Head(q)
           step == IF coxeter THEN 1 ELSE 2
           \* the for loop over the generators, from generator h on
           RECURSIVE row(_, _, _)
           row(res, qq, h) ==
             IF h >= Len(t[1]) THEN [thrown |-> FALSE, result |-> res, q |-> qq]
             ELSE IF t[coset + 1][h + 1] = Undef
             THEN [thrown |-> TRUE, result |-> res, q |-> qq]
             ELSE Only({ row(n.result, n.q, h + step) :
                          n \in { LET next == t[coset + 1][h + 1]
                                  IN  IF next >= Len(res) \/ res[next + 1] = Hole
                                      THEN [result |-> setAt(res, next, <<h>> \o res[coset + 1]),
                                            q |-> Append(qq, next)]
                                      ELSE [result |-> res, q |-> qq] } })
       IN  Only({ IF r.thrown THEN [thrown |-> TRUE, result |-> r.result]
                  ELSE representativesLoopPrepend(t, coxeter, r.result, Tail(r.q), 0) :
                  r \in { row(result, q, g) } })

\* getRepresentatives, the breadth-first loop: the while loop from the coset
\* at the head of the queue q on, its first row from generator g on; the
\* generator advances by 1 for self-inverse generators, else by 2
RECURSIVE representativesLoop(_, _, _, _, _)
representativesLoop(t, coxeter, result, q, g) ==
  IF q = << >> THEN [thrown |-> FALSE, result |-> result]
  ELSE LET coset == Head(q)
           step == IF coxeter THEN 1 ELSE 2
           \* the for loop over the generators, from generator h on
           RECURSIVE row(_, _, _)
           row(res, qq, h) ==
             IF h >= Len(t[1]) THEN [thrown |-> FALSE, result |-> res, q |-> qq]
             ELSE IF t[coset + 1][h + 1] = Undef
             THEN [thrown |-> TRUE, result |-> res, q |-> qq]
             ELSE Only({ row(n.result, n.q, h + step) :
                          n \in { LET next == t[coset + 1][h + 1]
                                  IN  IF next >= Len(res) \/ res[next + 1] = Hole
                                      THEN [result |-> setAt(res, next, Append(res[coset + 1], h)),
                                            q |-> Append(qq, next)]
                                      ELSE [result |-> res, q |-> qq] } })
       IN  Only({ IF r.thrown THEN [thrown |-> TRUE, result |-> r.result]
                  ELSE representativesLoop(t, coxeter, r.result, Tail(r.q), 0) :
                  r \in { row(result, q, g) } })

\* getRepresentatives: the words as strings over the alphabet
getRepresentatives(t, alpha, coxeter) ==
  Only({ [thrown |-> r.thrown,
          reps |-> [i \in 1..Len(r.result) |->
                      IF r.result[i] = Hole THEN HoleWord
                      ELSE [k \in 1..Len(r.result[i]) |-> alpha[r.result[i][k] + 1]]]] :
          r \in { representativesLoop(t, coxeter, << << >> >>, <<0>>, 0) } })

(***************************************************************************)
(* parsePlaintextCoxeterDiagram                                             *)
(***************************************************************************)
VALID_NODES == <<"o","v","x","s","m","p","q","f","h","k","u","w","F","Q","d","V","U","A","X","B">>
INT_CHARS == <<"0","1","2","3","4","5","6","7","8","9">>
OTHER_CHARS == <<" ", "/", "*">>

\* diagram[i] past the end of the string
NoChar == "undefined"

charAt(d, i) == IF i >= 0 /\ i < Len(d) THEN d[i + 1] ELSE NoChar

\* String.prototype.slice(left, right) for non-negative arguments
slice(d, left, right) == SubSeq(d, Min(left, Len(d)) + 1, Min(right, Len(d)))

isValidNode(c) == c \in Range(VALID_NODES)

\* charCodeAt(0) of the characters a diagram is written with
charCode(c) ==
  IF c \in Range(LowerLetters) THEN CharCodeA + IndexOf(LowerLetters, c) - 1
  ELSE IF c \in Range(UpperLetters) THEN 65 + IndexOf(UpperLetters, c) - 1
  ELSE IF c \in Range(INT_CHARS) THEN 48 + IndexOf(INT_CHARS, c) - 1
  ELSE IF c = " " THEN 32 ELSE IF c = "#" THEN 35 ELSE IF c = "&" THEN 38
  ELSE IF c = "*" THEN 42 ELSE IF c = "/" THEN 47 ELSE 0

\* nodeEdgeLengths: the numeral where the length is an integer, the node
\* character as the name of the constant otherwise (q is sqrt 2, ...)
nodeEdgeLengths(c) ==
  IF c = "o" THEN "0"
  ELSE IF c \in {"x", "s", "m", "p"} THEN "1"
  ELSE IF c = "u" THEN "2"
  ELSE IF c = "d" THEN "3"
  ELSE c

\* a number of the symmetry matrix: num / den in lowest terms
RECURSIVE gcd(_, _)
gcd(a, b) == IF b = 0 THEN a ELSE gcd(b, a % b)
frac(n, d) == [num |-> n \div gcd(n, d), den |-> d \div gcd(n, d)]
\* the number equals the integer k
fracIs(f, k) == f.num = k * f.den

\* err(left, right, details): the error the parser throws
err(original, left, right, details) ==
  [thrown |-> TRUE, error |-> "DiagramSyntaxError", left |-> left, right |-> right,
   span |-> slice(original, left, right), details |-> details]

\* reading a property of undefined
typeError == [thrown |-> TRUE, error |-> "TypeError", left |-> Undef, right |-> Undef,
              span |-> << >>, details |-> << >>]

\* diagram.indexOf('&#', start)
RECURSIVE indexOfLace(_, _)
indexOfLace(d, start) ==
  IF start + 1 >= Len(d) THEN -1
  ELSE IF d[start + 1] = "&" /\ d[start + 2] = "#" THEN start
  ELSE indexOfLace(d, start + 1)

\* diagram.split('&#')
RECURSIVE splitLace(_)
splitLace(d) ==
  LET k == indexOfLace(d, 0)
  IN  IF k < 0 THEN << d >>
      ELSE << SubSeq(d, 1, k) >> \o splitLace(SubSeq(d, k + 3, Len(d)))

\* the lace type gone wrong: only the first character after '&#' is read
laceMethodPrefix(suffix) ==
  IF suffix = << >> THEN ""
  ELSE IF suffix[1] = "x" THEN "lace prism"
  ELSE IF suffix[1] = "m" THEN "lace tegum"
  ELSE ""

\* the lace type after '&#', "" when it is not one of the four
laceMethod(suffix) ==
  IF suffix = <<"x">> THEN "lace prism"
  ELSE IF suffix = <<"x","t">> THEN "lace tower"
  ELSE IF suffix = <<"m">> THEN "lace tegum"
  ELSE IF suffix = <<"x","r">> THEN "lace ring"
  ELSE ""

\* the node counting loop: sizes of the node groups, or the first bad character
RECURSIVE countNodes(_, _, _, _, _)
countNodes(d, i, sizes, newNodeGroup, nodeCount) ==
  IF i >= Len(d) THEN [bad |-> -1, sizes |-> sizes, nodeCount |-> nodeCount]
  ELSE LET char == d[i + 1]
           prevChar == IF i > 0 THEN d[i] ELSE ""
       IN  IF prevChar = "*" THEN countNodes(d, i + 1, sizes, newNodeGroup, nodeCount)
           ELSE IF isValidNode(char)
           THEN Only({ countNodes(d, i + 1, [s1 EXCEPT ![Len(s1)] = @ + 1], FALSE, n1) :
                        s1 \in { IF newNodeGroup THEN Append(sizes, 0) ELSE sizes },
                        n1 \in { nodeCount + 1 } })
           ELSE IF char \notin Range(OTHER_CHARS) /\ char \notin Range(INT_CHARS)
           THEN [bad |-> i, sizes |-> sizes, nodeCount |-> nodeCount]
           ELSE countNodes(d, i + 1, sizes, TRUE, nodeCount)

\* getInt, the digit loop: the position after the digits and their value
RECURSIVE readDigits(_, _, _, _)
readDigits(d, i, len, val) ==
  IF charAt(d, i) \in Range(INT_CHARS)
  THEN readDigits(d, i + 1, len + 1, 10 * val + (IndexOf(INT_CHARS, charAt(d, i)) - 1))
  ELSE [i |-> i, len |-> len, val |-> val]

\* getInt at position i0: the value, or the error raised
getInt(original, d, i0) ==
  Only({ IF r.len = 0 THEN [ok |-> FALSE, i |-> r.i, val |-> 0,
                            e |-> err(original, i0, r.i, <<"Expected an integer here">>)]
         ELSE IF r.val < 2 THEN [ok |-> FALSE, i |-> r.i, val |-> r.val,
                            e |-> err(original, i0, r.i, <<"Integer must be at least 2">>)]
         ELSE [ok |-> TRUE, i |-> r.i, val |-> r.val, e |-> typeError] :
          r \in { readDigits(d, i0, 0, 0) } })

\* vnodeTarget gone wrong: the range check lets the node count itself through
vnodeTargetOffByOne(original, d, combineMethod, nodeCount, i) ==
  IF combineMethod # "none"
  THEN [ok |-> FALSE, target |-> Undef,
        e |-> err(original, i, i + 1,
                  <<"Virtual nodes are not supported in compound/laced diagrams">>)]
  ELSE IF charAt(d, i + 1) = NoChar
  THEN [ok |-> FALSE, target |-> Undef, e |-> typeError]
  ELSE LET target == charCode(charAt(d, i + 1)) - CharCodeA
       IN  IF target < 0 \/ target > nodeCount
           THEN [ok |-> FALSE, target |-> target,
                 e |-> err(original, i, i + 2,
                           <<"Virtual node must point to a valid node",
                             "does not lie between a and the last node">>)]
           ELSE [ok |-> TRUE, target |-> target, e |-> typeError]

\* vnodeTarget(i): the node the virtual node at position i points to
vnodeTarget(original, d, combineMethod, nodeCount, i) ==
  IF combineMethod # "none"
  THEN [ok |-> FALSE, target |-> Undef,
        e |-> err(original, i, i + 1,
                  <<"Virtual nodes are not supported in compound/laced diagrams">>)]
  ELSE IF charAt(d, i + 1) = NoChar
  THEN [ok |-> FALSE, target |-> Undef, e |-> typeError]
  ELSE LET target == charCode(charAt(d, i + 1)) - CharCodeA
       IN  IF target < 0 \/ target >= nodeCount
           THEN [ok |-> FALSE, target |-> target,
                 e |-> err(original, i, i + 2,
                           <<"Virtual node must point to a valid node",
                             "does not lie between a and the last node">>)]
           ELSE [ok |-> TRUE, target |-> target, e |-> typeError]

\* array[idx] = value on a JavaScript array of length >= idx
putAt(a, idx, v) == IF idx < Len(a) THEN [a EXCEPT ![idx + 1] = v] ELSE Append(a, v)

\* S[from][to] = S[to][from] = v; an index of -1 or past the matrix would be
\* a write through undefined
setSym(M, from, to, v) ==
  [r \in 1..Len(M) |-> [c \in 1..Len(M) |->
     IF (r = from + 1 /\ c = to + 1) \/ (r = to + 1 /\ c = from + 1) THEN v ELSE M[r][c]]]

\* the node slot: one character per subpolytope
RECURSIVE parseNodes(_, _, _, _, _, _)
parseNodes(original, d, subs, i, to, s) ==
  IF s >= Len(subs) THEN [ok |-> TRUE, subs |-> subs, e |-> typeError]
  ELSE IF isValidNode(charAt(d, i + s))
  THEN Only({ parseNodes(original, d, subs1, i, to, s + 1) :
               subs1 \in { LET c == charAt(d, i + s)
                           IN  [subs EXCEPT ![s + 1] =
                                  [offsets |-> putAt(@.offsets, to, <<nodeEdgeLengths(c), "/2">>),
                                   active |-> Append(@.active, c # "o"),
                                   dual |-> Append(@.dual, c = "m" \/ c = "p"),
                                   snub |-> Append(@.snub, c = "s" \/ c = "p")]] } })
  ELSE [ok |-> FALSE, subs |-> subs,
        e |-> err(original, i + s, i + s + 1,
                  <<"Expected a node, is this a valid node type?">>)]

\* the edge slot gone wrong: the Coxeter matrix receives the quotient
edgeAssignQuotient(original, nodeCount, st, i, from, to, n, dn) ==
  IF to >= nodeCount
  THEN [ok |-> FALSE, st |-> st, e |-> err(original, i, i + 1, <<"Missing a node here">>)]
  ELSE [ok |-> TRUE, e |-> typeError,
        st |-> [st EXCEPT !.i = i, !.to = to, !.from = from, !.prevWasEdge = TRUE,
                          !.S = setSym(@, from, to, frac(n, dn)),
                          !.C = setSym(@, from, to, n \div dn)]]

\* the edge slot, last part: the check of `to` and the two matrix entries
edgeAssign(original, nodeCount, st, i, from, to, n, dn) ==
  IF to >= nodeCount
  THEN [ok |-> FALSE, st |-> st, e |-> err(original, i, i + 1, <<"Missing a node here">>)]
  ELSE [ok |-> TRUE, e |-> typeError,
        st |-> [st EXCEPT !.i = i, !.to = to, !.from = from, !.prevWasEdge = TRUE,
                          !.S = setSym(@, from, to, frac(n, dn)),
                          !.C = setSym(@, from, to, n)]]

\* the edge slot after the edge value (n, or n / dn), at position i: a virtual
\* node here makes the edge point to its target
edgeTarget(original, d, combineMethod, nodeCount, st, i, from, n, dn) ==
  IF charAt(d, i) = "*"
  THEN Only({ IF v.ok
              THEN edgeAssign(original, nodeCount, st, i + 2, v.target, st.to - 1, n, dn)
              ELSE [ok |-> FALSE, st |-> st, e |-> v.e] :
               v \in { vnodeTarget(original, d, combineMethod, nodeCount, i) } })
  ELSE edgeAssign(original, nodeCount, st, i, from, st.to, n, dn)

\* the edge slot after the numerator n, at position i: an optional '/' and
\* denominator
edgeDenominator(original, d, combineMethod, nodeCount, st, i, from, n) ==
  IF charAt(d, i) = "/"
  THEN Only({ IF dn.ok
              THEN edgeTarget(original, d, combineMethod, nodeCount, st, dn.i, from, n, dn.val)
              ELSE [ok |-> FALSE, st |-> st, e |-> dn.e] :
               dn \in { getInt(original, d, i + 1) } })
  ELSE edgeTarget(original, d, combineMethod, nodeCount, st, i, from, n, 1)

\* the edge slot at position i, after the optional leading virtual node: a
\* space stands for 2, anything else must be an integer
edgeValue(original, d, combineMethod, nodeCount, st, i, from) ==
  IF charAt(d, i) # " "
  THEN Only({ IF n.ok
              THEN edgeDenominator(original, d, combineMethod, nodeCount, st, n.i, from, n.val)
              ELSE [ok |-> FALSE, st |-> st, e |-> n.e] :
               n \in { getInt(original, d, i) } })
  ELSE edgeTarget(original, d, combineMethod, nodeCount, st, i + 1, from, 2, 1)

\* the edge slot starting at position st.i: optional virtual node, edge value,
\* optional virtual node, then the two matrix entries
parseEdge(original, d, combineMethod, nodeCount, st) ==
  IF charAt(d, st.i) = "*"
  THEN Only({ IF v.ok
              THEN edgeValue(original, d, combineMethod, nodeCount, st, st.i + 2, v.target)
              ELSE [ok |-> FALSE, st |-> st, e |-> v.e] :
               v \in { vnodeTarget(original, d, combineMethod, nodeCount, st.i) } })
  ELSE edgeValue(original, d, combineMethod, nodeCount, st, st.i, st.from)

\* the main scan loop, alternating node slots and edge slots
RECURSIVE parseLoop(_, _, _, _, _)
parseLoop(original, d, combineMethod, nodeCount, st) ==
  IF st.i >= Len(d) THEN [ok |-> TRUE, st |-> st, e |-> typeError]
  ELSE IF ~st.prevWasEdge
  THEN Only({ IF r.ok THEN parseLoop(original, d, combineMethod, nodeCount, r.st) ELSE r :
               r \in { parseEdge(original, d, combineMethod, nodeCount, st) } })
  ELSE Only({ IF r.ok THEN parseLoop(original, d, combineMethod, nodeCount, r.st)
              ELSE [ok |-> FALSE, st |-> st, e |-> r.e] :
               r \in { LET n == parseNodes(original, d, st.subs, st.i, st.to, 0)
                       IN  [ok |-> n.ok, e |-> n.e,
                            st |-> [st EXCEPT !.subs = n.subs, !.i = @ + Len(st.subs),
                                              !.from = st.to, !.to = @ + 1,
                                              !.prevWasEdge = FALSE]] } })

\* the matrices and subpolytopes before the scan: all entries 2, diagonal 1
initialScan(nodeCount, subpolytopeCount) ==
  [i |-> 0, to |-> 0, from |-> -1, prevWasEdge |-> TRUE,
   S |-> [r \in 1..nodeCount |-> [c \in 1..nodeCount |->
            IF r = c THEN frac(1, 1) ELSE frac(2, 1)]],
   C |-> [r \in 1..nodeCount |-> [c \in 1..nodeCount |-> IF r = c THEN 1 ELSE 2]],
   subs |-> [s \in 1..subpolytopeCount |->
               [offsets |-> << >>, active |-> << >>, dual |-> << >>, snub |-> << >>]]]

\* part 3 of the parser: the first character must be a node, then the scan
parseScan(original, d, combineMethod, nodeCount, subpolytopeCount) ==
  IF ~isValidNode(charAt(d, 0))
  THEN err(original, 0, 1, <<"First character must be a node">>)
  ELSE Only({ IF ~r.ok THEN r.e
              ELSE [thrown |-> FALSE, diagram |-> original, combineMethod |-> combineMethod,
                    symmetryMatrix |-> r.st.S, coxeterMatrix |-> r.st.C,
                    subpolytopes |-> r.st.subs] :
               r \in { parseLoop(original, d, combineMethod, nodeCount,
                                 initialScan(nodeCount, subpolytopeCount)) } })

\* the group checks gone wrong: only the first two groups are compared
parseGroupsFirstTwo(original, d, method, isLaced, sizes, count) ==
  LET subpolytopeCount == IF sizes = << >> THEN 0 ELSE sizes[1]
  IN  IF \E k \in 1..Min(2, Len(sizes)) : sizes[k] # subpolytopeCount
      THEN err(original, 0, Len(d),
               <<"All nodes groups must have the same size", "Sizes were: ...">>)
      ELSE IF subpolytopeCount = 1 /\ isLaced
      THEN err(original, 0, Len(d),
               <<"Laced diagrams should have node groups of minimum size 2">>)
      ELSE parseScan(original, d,
                     IF subpolytopeCount > 1 /\ ~isLaced THEN "compound" ELSE method,
                     IF subpolytopeCount = 0 THEN 0 ELSE count \div subpolytopeCount,
                     subpolytopeCount)

\* the checks of the node group sizes; nodeGroupSizes[0] is undefined when the
\* diagram has no node, and subpolytopeCount = 0 stands for that
parseGroups(original, d, method, isLaced, sizes, count) ==
  LET subpolytopeCount == IF sizes = << >> THEN 0 ELSE sizes[1]
  IN  IF \E k \in 1..Len(sizes) : sizes[k] # subpolytopeCount
      THEN err(original, 0, Len(d),
               <<"All nodes groups must have the same size", "Sizes were: ...">>)
      ELSE IF subpolytopeCount = 1 /\ isLaced
      THEN err(original, 0, Len(d),
               <<"Laced diagrams should have node groups of minimum size 2">>)
      ELSE parseScan(original, d,
                     IF subpolytopeCount > 1 /\ ~isLaced THEN "compound" ELSE method,
                     IF subpolytopeCount = 0 THEN 0 ELSE count \div subpolytopeCount,
                     subpolytopeCount)

\* the parser after the lace indicator is removed: count the nodes and check
\* the characters
parseBody(original, d, method, isLaced) ==
  Only({ IF cnt.bad >= 0
         THEN err(original, cnt.bad, cnt.bad + 1,
                  <<"Invalid character", "Valid node types are ...",
                    "Other valid characters are ...",
                    "And anything coming straight after a '*' is allowed too">>)
         ELSE parseGroups(original, d, method, isLaced, cnt.sizes, cnt.nodeCount) :
          cnt \in { countNodes(d, 0, << >>, TRUE, 0) } })

\* the lace indicator: exactly one '&#', followed by a known lace type
parseLace(original, idx, split) ==
  IF Len(split) > 2
  THEN err(original, idx, Len(original),
           <<"Multiple lace indicators \"&#\" found, only one should be present">>)
  ELSE IF split[2] = << >>
  THEN err(original, idx, Len(original),
           <<"Lace indicator \"&#\" found, but no lace type specified after it">>)
  ELSE IF laceMethod(split[2]) = ""
  THEN err(original, idx, Len(original), <<"Unknown lace type">>)
  ELSE parseBody(original, split[1], laceMethod(split[2]), TRUE)

\* parsePlaintextCoxeterDiagram(diagram): the description, or the error thrown
parsePlaintextCoxeterDiagram(original) ==
  IF indexOfLace(original, 0) >= 0
  THEN parseLace(original, indexOfLace(original, 0), splitLace(original))
  ELSE parseBody(original, original, "none", FALSE)

(***************************************************************************)
(* polygen: relations of a Coxeter matrix                                   *)
(***************************************************************************)
\* getRelations gone wrong: every relator is one repetition short
RECURSIVE relationsOfRowShort(_, _, _, _)
relationsOfRowShort(coxeterMatrix, alpha, i, j) ==
  IF j >= i THEN << >>
  ELSE << repeat(<<alpha[i + 1], alpha[j + 1]>>, coxeterMatrix[i + 1][j + 1] - 1) >>
       \o relationsOfRowShort(coxeterMatrix, alpha, i, j + 1)

\* a Coxeter matrix as a sequence of rows, C[i + 1][j + 1] for mirrors i, j
\* getRelations, inner loop over j < i
RECURSIVE relationsOfRow(_, _, _, _)
relationsOfRow(coxeterMatrix, alpha, i, j) ==
  IF j >= i THEN << >>
  ELSE << repeat(<<alpha[i + 1], alpha[j + 1]>>, coxeterMatrix[i + 1][j + 1]) >>
       \o relationsOfRow(coxeterMatrix, alpha, i, j + 1)

\* getRelations, outer loop over i from 1
RECURSIVE relationsFrom(_, _, _)
relationsFrom(coxeterMatrix, alpha, i) ==
  IF i >= Len(coxeterMatrix) THEN << >>
  ELSE relationsOfRow(coxeterMatrix, alpha, i, 0) \o relationsFrom(coxeterMatrix, alpha, i + 1)

getRelations(coxeterMatrix, alpha) == relationsFrom(coxeterMatrix, alpha, 1)

(***************************************************************************)
(* Inputs                                                                   *)
(***************************************************************************)
\* the Coxeter matrix of the linear diagram  a -p- b -q- c
linearMatrix(p, q) == << <<1, p, 2>>, <<p, 1, q>>, <<2, q, 1>> >>

\* subgroup generator lists a client passes: the mirror subsets polygen uses
\* and lists with longer words
SubgroupLists ==
  { << >>, << <<"a">> >>, << <<"b">> >>, << <<"c">> >>,
    << <<"a">>, <<"b">> >>, << <<"a">>, <<"c">> >>, << <<"b">>, <<"c">> >>,
    << <<"a">>, <<"b">>, <<"c">> >>,
    << <<"a","b">> >>, << <<"a","b","c">> >>,
    << <<"a">>, <<"b","c">> >>, << <<"b">>, <<"a","c">> >>,
    << <<"c">>, <<"a","b">> >>, << <<"b">>, <<"a","b","c">> >> }

\* the arguments of new CosetTable(generators, relations, subgens, isCoxeter)
CoxeterInputs ==
  { [generators |-> <<"a","b","c">>,
     relations |-> getRelations(linearMatrix(p, q), <<"a","b","c">>),
     subgens |-> sg, isCoxeter |-> TRUE] :
       p \in 2..MaxLabel, q \in 2..MaxLabel, sg \in SubgroupLists }

\* presentations with explicit inverses, and one with an empty subgroup word
OtherInputs ==
  { [generators |-> <<"a">>, relations |-> << <<"a","a","a">> >>,
     subgens |-> << >>, isCoxeter |-> FALSE],
    [generators |-> <<"a","b">>,
     relations |-> << <<"a","a","a">>, <<"b","b">>, <<"a","b","a","b">> >>,
     subgens |-> << <<"b">> >>, isCoxeter |-> FALSE],
    [generators |-> <<"a","b">>,
     relations |-> << <<"a","a","a">>, <<"b","b">>, <<"a","b","A","B">> >>,
     subgens |-> << <<"a","b","a">> >>, isCoxeter |-> FALSE],
    [generators |-> <<"a","b">>, relations |-> << <<"b","a","b","a">> >>,
     subgens |-> << << >> >>, isCoxeter |-> TRUE],
    [generators |-> <<"a","b">>, relations |-> << <<"a">> >>,
     subgens |-> << >>, isCoxeter |-> TRUE],
    [generators |-> <<"a","b">>,
     relations |-> << <<"b","a","b">>, <<"a","b","a">> >>,
     subgens |-> << >>, isCoxeter |-> TRUE] }

ClientInputs == CoxeterInputs \cup OtherInputs

\* the diagrams polygen is called with
Diagrams ==
  { <<"x","4","o","3","o">>,                  \* cube
    <<"x","3","o","3","o">>,                  \* tetrahedron
    <<"o","4","o","3","x">>,                  \* octahedron
    <<"x","4","x","3","o">>,                  \* truncated cube
    <<"x","5","/","2","o","3","o">>,          \* fractional edge
    <<"x","3","o">>,                          \* triangle
    <<"x"," ","x"," ","x">>,                  \* cube as a prism product
    <<"o","3","o","3","o">>,                  \* no active mirror
    <<"x">>,                                  \* one node
    <<"s","4","s","3","s">>,                  \* snub nodes
    <<"m","4","m","3","m">>,                  \* dual nodes
    <<"x","o","4","o","o","3","o","q">>,      \* compound
    <<"x","x","3","o","x","&","#","x">>,      \* lace prism
    <<"x","4","o","3","o","3","*","z">>,      \* virtual node out of range
    <<"x","4","o","3">>,                      \* missing node
    <<"x","4","o","3","o","3","o">>,          \* tesseract
    <<"x","3","o","3","o","3","o">>,          \* 5-cell
    <<"x","3","o"," ","x","3","o">>,          \* triangular duoprism
    <<"x"," ","x","3","o"," ","o">>,          \* a prism in a 4D group
    <<"x"," ","o"," ","o"," ","o">>,          \* a segment in a 4D group
    <<"o"," ","o","3","o","3","o","3","*","b">> }  \* a triangle of inactive mirrors

\* the values a client passes as MAX_ITER
MaxIterChoices == (0..MaxSmallIter) \cup {DefaultMaxIter}

(***************************************************************************)
(* State                                                                    *)
(***************************************************************************)
VARIABLES
  alphabet,     \* CosetTable._alphabet
  isCoxeter,    \* CosetTable._isCoxeter
  relations,    \* CosetTable._relations (integer arrays)
  subgens,      \* CosetTable._subgens (integer arrays)
  table,        \* CosetTable._table
  equivalence,  \* CosetTable._equivalence
  deadQueue,    \* CosetTable._deadQueue
  isSolved,     \* CosetTable._isSolved
  pc,           \* where control is
  hlt,          \* locals of _hlt: MAX_ITER, current, iter, idx (for-of / g index)
  scan,         \* locals of _scanAndFill: word, lv, rv, lp, rp, iter, ret
  coin,         \* locals of _coincidence: dead, g
  thrown,       \* message of the error the last call threw, "none" otherwise
  calls,        \* number of solve() calls a client made on its table
  pg            \* locals of polygen; pg.pc = "none" when a client drives the table

ctVars == <<alphabet, isCoxeter, relations, subgens, table, equivalence, deadQueue, isSolved>>
vars == <<alphabet, isCoxeter, relations, subgens, table, equivalence, deadQueue, isSolved,
          pc, hlt, scan, coin, thrown, calls, pg>>

genCount == Len(alphabet)

NoHlt == [MAX_ITER |-> 0, current |-> 0, iter |-> 0, idx |-> 0]
NoScan == [word |-> << >>, lv |-> 0, rv |-> 0, lp |-> 0, rp |-> 0, iter |-> 0, ret |-> "none"]
NoCoin == [dead |-> Undef, g |-> 0]

ErrIterationLimit == "Iteration limit exceeded"
ErrCompress == "compress should not be called before the table is solved!"

\* the fields after new CosetTable(in.generators, in.relations, in.subgens, in.isCoxeter)
constructed(in) ==
  LET alpha == buildAlphabet(in.generators, 1, in.isCoxeter, << >>)
  IN  [alphabet |-> alpha,
       isCoxeter |-> in.isCoxeter,
       relations |-> [i \in 1..Len(in.relations) |-> wordToInt(alpha, in.relations[i])],
       subgens |-> [i \in 1..Len(in.subgens) |-> wordToInt(alpha, in.subgens[i])],
       table |-> << emptyRow(Len(alpha)) >>,
       equivalence |-> <<0>>,
       deadQueue |-> << >>]

NoPg == [pc |-> "none", diagram |-> << >>, info |-> [thrown |-> FALSE], error |-> "none",
         vct |-> << >>, vertices |-> << >>, edges |-> << >>, faces |-> << >>,
         faceinfo |-> << >>, cells |-> << >>, i |-> 0, seed |-> << >>,
         j |-> 0, reps |-> << >>, toAdd |-> << >>]

\* a client constructs a table: new CosetTable(...)
InitClient ==
  \E in \in ClientInputs :
    /\ ~constructorThrows(in.generators, in.relations, in.subgens, in.isCoxeter)
    /\ alphabet = constructed(in).alphabet
    /\ isCoxeter = constructed(in).isCoxeter
    /\ relations = constructed(in).relations
    /\ subgens = constructed(in).subgens
    /\ table = constructed(in).table
    /\ equivalence = constructed(in).equivalence
    /\ deadQueue = constructed(in).deadQueue
    /\ isSolved = FALSE
    /\ pc = "idle"
    /\ hlt = NoHlt
    /\ scan = NoScan
    /\ coin = NoCoin
    /\ thrown = "none"
    /\ calls = 0
    /\ pg = NoPg

\* a caller enters polygen(diagram); no coset table exists yet
InitPolygen ==
  \E diagram \in Diagrams :
    /\ alphabet = << >>
    /\ isCoxeter = TRUE
    /\ relations = << >>
    /\ subgens = << >>
    /\ table = << >>
    /\ equivalence = << >>
    /\ deadQueue = << >>
    /\ isSolved = FALSE
    /\ pc = "idle"
    /\ hlt = NoHlt
    /\ scan = NoScan
    /\ coin = NoCoin
    /\ thrown = "none"
    /\ calls = 0
    /\ pg = [NoPg EXCEPT !.pc = "start", !.diagram = diagram]

Init == InitClient \/ InitPolygen

(***************************************************************************)
(* solve                                                                    *)
(***************************************************************************)
\* solve(MAX_ITER) on a table that is not solved: enter _hlt
solve(m) ==
  /\ pg.pc = "none"
  /\ pc \in {"idle", "returned", "threw"}
  /\ calls < MaxSolveCalls
  /\ ~isSolved
  /\ calls' = calls + 1
  /\ hlt' = [MAX_ITER |-> m, current |-> 0, iter |-> 0, idx |-> 0]
  /\ thrown' = "none"
  /\ pc' = "hlt_seed"
  /\ UNCHANGED <<ctVars, scan, coin, pg>>

\* solve(MAX_ITER) on a solved table does nothing
solveAgain(m) ==
  /\ pg.pc = "none"
  /\ pc \in {"idle", "returned", "threw"}
  /\ calls < MaxSolveCalls
  /\ isSolved
  /\ calls' = calls + 1
  /\ thrown' = "none"
  /\ pc' = "returned"
  /\ UNCHANGED <<ctVars, hlt, scan, coin, pg>>

\* _scanAndFill gone wrong: the right cursor starts one letter short
enterScanShort(coset, word, ret) ==
  [word |-> word, lv |-> coset, rv |-> coset, lp |-> 0, rp |-> Len(word) - 2,
   iter |-> 0, ret |-> ret]

\* the locals of _scanAndFill(coset, word) on entry
enterScan(coset, word, ret) ==
  [word |-> word, lv |-> coset, rv |-> coset, lp |-> 0, rp |-> Len(word) - 1,
   iter |-> 0, ret |-> ret]

(***************************************************************************)
(* _hlt                                                                     *)
(***************************************************************************)
\* the seed loop gone wrong: the subgroup generator is passed over unscanned
hltSeedSkip ==
  /\ pc = "hlt_seed"
  /\ hlt.idx < Len(subgens)
  /\ hlt' = [hlt EXCEPT !.idx = @ + 1]
  /\ UNCHANGED <<ctVars, pc, scan, coin, thrown, calls, pg>>

\* for (const word of this._subgens) this._scanAndFill(0, word)
hltSeedScan ==
  /\ pc = "hlt_seed"
  /\ hlt.idx < Len(subgens)
  /\ scan' = enterScan(0, subgens[hlt.idx + 1], "hlt_seed")
  /\ hlt' = [hlt EXCEPT !.idx = @ + 1]
  /\ pc' = "scan"
  /\ UNCHANGED <<ctVars, coin, thrown, calls, pg>>

\* the subgroup generators are scanned: current = 0, iter = 0
hltSeedDone ==
  /\ pc = "hlt_seed"
  /\ hlt.idx >= Len(subgens)
  /\ hlt' = [hlt EXCEPT !.current = 0, !.iter = 0, !.idx = 0]
  /\ pc' = "hlt_loop"
  /\ UNCHANGED <<ctVars, scan, coin, thrown, calls, pg>>

\* while (current < length && iter++ < MAX_ITER): the body is entered
hltLoopEnter ==
  /\ pc = "hlt_loop"
  /\ hlt.current < Len(table)
  /\ hlt.iter < hlt.MAX_ITER
  /\ hlt' = [hlt EXCEPT !.iter = @ + 1, !.idx = 0]
  /\ pc' = "hlt_rels"
  /\ UNCHANGED <<ctVars, scan, coin, thrown, calls, pg>>

\* the iteration limit gone wrong: the check after the loop is missing and
\* _hlt returns to solve
hltLoopLimitSilent ==
  /\ pc = "hlt_loop"
  /\ hlt.current < Len(table)
  /\ hlt.iter >= hlt.MAX_ITER
  /\ hlt' = [hlt EXCEPT !.iter = @ + 1]
  /\ pc' = "compress"
  /\ UNCHANGED <<ctVars, scan, coin, thrown, calls, pg>>

\* the loop ends on iter++ < MAX_ITER being false; then iter >= MAX_ITER throws
hltLoopLimit ==
  /\ pc = "hlt_loop"
  /\ hlt.current < Len(table)
  /\ hlt.iter >= hlt.MAX_ITER
  /\ hlt' = [hlt EXCEPT !.iter = @ + 1]
  /\ thrown' = ErrIterationLimit
  /\ pc' = "threw"
  /\ UNCHANGED <<ctVars, scan, coin, calls, pg>>

\* the loop ends on current < length being false (iter is not incremented),
\* and the check after the loop throws
hltLoopEndThrow ==
  /\ pc = "hlt_loop"
  /\ hlt.current >= Len(table)
  /\ hlt.iter >= hlt.MAX_ITER
  /\ thrown' = ErrIterationLimit
  /\ pc' = "threw"
  /\ UNCHANGED <<ctVars, hlt, scan, coin, calls, pg>>

\* the loop ends on current < length being false and _hlt returns to solve
hltLoopEndReturn ==
  /\ pc = "hlt_loop"
  /\ hlt.current >= Len(table)
  /\ hlt.iter < hlt.MAX_ITER
  /\ pc' = "compress"
  /\ UNCHANGED <<ctVars, hlt, scan, coin, thrown, calls, pg>>

\* the relator loop gone wrong: no check that current is alive
hltRelScanDead ==
  /\ pc = "hlt_rels"
  /\ hlt.idx < Len(relations)
  /\ scan' = enterScan(hlt.current, relations[hlt.idx + 1], "hlt_rels")
  /\ hlt' = [hlt EXCEPT !.idx = @ + 1]
  /\ pc' = "scan"
  /\ UNCHANGED <<ctVars, coin, thrown, calls, pg>>

\* for (const rel of this._relations): current is alive, scan the next relator
hltRelScan ==
  /\ pc = "hlt_rels"
  /\ hlt.idx < Len(relations)
  /\ isAlive(equivalence, hlt.current)
  /\ scan' = enterScan(hlt.current, relations[hlt.idx + 1], "hlt_rels")
  /\ hlt' = [hlt EXCEPT !.idx = @ + 1]
  /\ pc' = "scan"
  /\ UNCHANGED <<ctVars, coin, thrown, calls, pg>>

\* the relator loop ends: all relators scanned, or current died (break)
hltRelsDone ==
  /\ pc = "hlt_rels"
  /\ hlt.idx >= Len(relations) \/ ~isAlive(equivalence, hlt.current)
  /\ hlt' = [hlt EXCEPT !.idx = 0]
  /\ pc' = "hlt_fill"
  /\ UNCHANGED <<ctVars, scan, coin, thrown, calls, pg>>

\* row completion: table[current][g] is undefined, define a new coset
hltFillDefine ==
  /\ pc = "hlt_fill"
  /\ isAlive(equivalence, hlt.current)
  /\ hlt.idx < genCount
  /\ table[hlt.current + 1][hlt.idx + 1] = Undef
  /\ Len(table) < MaxCosets
  /\ table' = define(table, isCoxeter, hlt.current, hlt.idx)
  /\ equivalence' = Append(equivalence, Len(table))
  /\ hlt' = [hlt EXCEPT !.idx = @ + 1]
  /\ UNCHANGED <<alphabet, isCoxeter, relations, subgens, deadQueue, isSolved,
                 pc, scan, coin, thrown, calls, pg>>

\* row completion: table[current][g] is defined already
hltFillSkip ==
  /\ pc = "hlt_fill"
  /\ isAlive(equivalence, hlt.current)
  /\ hlt.idx < genCount
  /\ table[hlt.current + 1][hlt.idx + 1] # Undef
  /\ hlt' = [hlt EXCEPT !.idx = @ + 1]
  /\ UNCHANGED <<ctVars, pc, scan, coin, thrown, calls, pg>>

\* current++ after the row is complete, or at once when current is dead
hltNext ==
  /\ pc = "hlt_fill"
  /\ ~isAlive(equivalence, hlt.current) \/ hlt.idx >= genCount
  /\ hlt' = [hlt EXCEPT !.current = @ + 1, !.idx = 0]
  /\ pc' = "hlt_loop"
  /\ UNCHANGED <<ctVars, scan, coin, thrown, calls, pg>>

(***************************************************************************)
(* _scanAndFill: one pass of its while loop per step                        *)
(***************************************************************************)
\* the cursors after the forward scan of this pass
scanFwd == scanForward(table, scan.word, scan.lv, scan.lp, scan.rp)
\* the cursors after the backward scan of this pass
scanBwd == scanBackward(table, isCoxeter, scan.word, scan.rv, scan.rp, scanFwd.p)

\* while (iter++ < word.length) is false: the throw after the loop
scanThrow ==
  /\ pc = "scan"
  /\ scan.iter >= Len(scan.word)
  /\ scan' = [scan EXCEPT !.iter = @ + 1]
  /\ thrown' = ErrIterationLimit
  /\ pc' = "threw"
  /\ UNCHANGED <<ctVars, hlt, coin, calls, pg>>

\* the forward scan reaches the end of the word at the starting coset: return
scanComplete ==
  /\ pc = "scan"
  /\ scan.iter < Len(scan.word)
  /\ scanFwd.p > scan.rp
  /\ scanFwd.v = scan.rv
  /\ scan' = [scan EXCEPT !.iter = @ + 1, !.lv = scanFwd.v, !.lp = scanFwd.p]
  /\ pc' = scan.ret
  /\ UNCHANGED <<ctVars, hlt, coin, thrown, calls, pg>>

\* the forward scan completes at another coset, or the two scans overlap:
\* _coincidence(lv, rv) is called; its first statement is the merge
scanCoincidence ==
  /\ pc = "scan"
  /\ scan.iter < Len(scan.word)
  /\ \/ scanFwd.p > scan.rp /\ scanFwd.v # scan.rv
     \/ scanFwd.p <= scan.rp /\ scanBwd.p < scanFwd.p
  /\ LET rv == IF scanFwd.p > scan.rp THEN scan.rv ELSE scanBwd.v
         rp == IF scanFwd.p > scan.rp THEN scan.rp ELSE scanBwd.p
         m  == merge(equivalence, deadQueue, scanFwd.v, rv)
     IN  /\ scan' = [scan EXCEPT !.iter = @ + 1, !.lv = scanFwd.v, !.lp = scanFwd.p,
                                 !.rv = rv, !.rp = rp]
         /\ equivalence' = m.eq
         /\ deadQueue' = m.dq
  /\ coin' = NoCoin
  /\ pc' = "coincidence"
  /\ UNCHANGED <<alphabet, isCoxeter, relations, subgens, table, isSolved, hlt, thrown, calls, pg>>

\* the scans are about to meet: deduce(lv, rv, word[lp]) and return
scanDeduce ==
  /\ pc = "scan"
  /\ scan.iter < Len(scan.word)
  /\ scanFwd.p <= scan.rp
  /\ scanBwd.p = scanFwd.p
  /\ table' = deduce(table, isCoxeter, scanFwd.v, scanBwd.v, scan.word[scanFwd.p + 1])
  /\ scan' = [scan EXCEPT !.iter = @ + 1, !.lv = scanFwd.v, !.lp = scanFwd.p,
                          !.rv = scanBwd.v, !.rp = scanBwd.p]
  /\ pc' = scan.ret
  /\ UNCHANGED <<alphabet, isCoxeter, relations, subgens, equivalence, deadQueue, isSolved,
                 hlt, coin, thrown, calls, pg>>

\* a gap remains: define(lv, word[lp]) and scan on
scanDefine ==
  /\ pc = "scan"
  /\ scan.iter < Len(scan.word)
  /\ scanFwd.p <= scan.rp
  /\ scanBwd.p > scanFwd.p
  /\ Len(table) < MaxCosets
  /\ table' = define(table, isCoxeter, scanFwd.v, scan.word[scanFwd.p + 1])
  /\ equivalence' = Append(equivalence, Len(table))
  /\ scan' = [scan EXCEPT !.iter = @ + 1, !.lv = scanFwd.v, !.lp = scanFwd.p,
                          !.rv = scanBwd.v, !.rp = scanBwd.p]
  /\ UNCHANGED <<alphabet, isCoxeter, relations, subgens, deadQueue, isSolved,
                 pc, hlt, coin, thrown, calls, pg>>

(***************************************************************************)
(* _coincidence: the worklist loop after the first merge                    *)
(***************************************************************************)
\* the worklist gone wrong: the dead coset is read but stays in the queue
coincidenceShiftKeeps ==
  /\ pc = "coincidence"
  /\ coin.dead = Undef
  /\ deadQueue # << >>
  /\ coin' = [dead |-> Head(deadQueue), g |-> 0]
  /\ UNCHANGED <<ctVars, pc, hlt, scan, thrown, calls, pg>>

\* const dead = this._deadQueue.shift()
coincidenceShift ==
  /\ pc = "coincidence"
  /\ coin.dead = Undef
  /\ deadQueue # << >>
  /\ coin' = [dead |-> Head(deadQueue), g |-> 0]
  /\ deadQueue' = Tail(deadQueue)
  /\ UNCHANGED <<alphabet, isCoxeter, relations, subgens, table, equivalence, isSolved,
                 pc, hlt, scan, thrown, calls, pg>>

\* one generator of the dead coset: detach, then merge again or copy
coincidenceGen ==
  /\ pc = "coincidence"
  /\ coin.dead # Undef
  /\ \E r \in { coincidenceStep(table, equivalence, deadQueue, isCoxeter, coin.dead, coin.g) } :
       /\ table' = r.table
       /\ equivalence' = r.eq
       /\ deadQueue' = r.dq
  /\ coin' = IF coin.g + 1 < genCount THEN [coin EXCEPT !.g = @ + 1] ELSE NoCoin
  /\ UNCHANGED <<alphabet, isCoxeter, relations, subgens, isSolved,
                 pc, hlt, scan, thrown, calls, pg>>

\* the dead queue is empty: _coincidence returns, and so does _scanAndFill
coincidenceReturn ==
  /\ pc = "coincidence"
  /\ coin.dead = Undef
  /\ deadQueue = << >>
  /\ pc' = scan.ret
  /\ UNCHANGED <<ctVars, hlt, scan, coin, thrown, calls, pg>>

(***************************************************************************)
(* solve, after _hlt returned: _compress, then _isSolved = true             *)
(***************************************************************************)
solveCompress ==
  /\ pc = "compress"
  /\ \E r \in { compress(table, equivalence, isCoxeter) } :
       /\ table' = r.table
       /\ equivalence' = r.eq
       /\ isSolved' = ~r.thrown
       /\ thrown' = IF r.thrown THEN ErrCompress ELSE "none"
       /\ pc' = IF r.thrown THEN "threw" ELSE "returned"
  /\ UNCHANGED <<alphabet, isCoxeter, relations, subgens, deadQueue, hlt, scan, coin, calls, pg>>

(***************************************************************************)
(* polygen                                                                  *)
(* The mirror normals and the coordinates of the vertices are floating      *)
(* point geometry (placeMirrors, placeInitialVertex, reflecti); a vertex is *)
(* kept here as the word of reflections that produces it from v0.           *)
(***************************************************************************)
ErrDimension == "Only 2-3D polytopes are supported"
ErrCombine == "Plytope compounds/laces are not supported!"
ErrDual == "Dual polytopes are not supported!"
ErrSnub == "Snub polytopes are not supported!"
ErrApplyWord == "Error applying word to coset, is the coset table solved?"
ErrEmptyEntry == "Found empty entry, is the coset table solved?"

\* 'abcdefghijklmnopqrstuvwxyz'.substring(0, d)
polygenAlphabet(d) == SubSeq(LowerLetters, 1, Min(d, Len(LowerLetters)))

\* arange(n): 0, 1, ..., n - 1
arange(n) == [k \in 1..n |-> k - 1]

\* combinations(array, size), helper(start, current): in the order the
\* recursion pushes them
RECURSIVE combinationsHelper(_, _, _, _, _)
combinationsHelper(array, size, start, current, i) ==
  IF Len(current) = size THEN << current >>
  ELSE IF i >= Len(array) THEN << >>
  ELSE combinationsHelper(array, size, i + 1, Append(current, array[i + 1]), i + 1)
       \o combinationsHelper(array, size, start, current, i + 1)

combinations(array, size) == combinationsHelper(array, size, 0, << >>, 0)

\* the description polygen works on
pgS == pg.info.symmetryMatrix
pgC == pg.info.coxeterMatrix
pgPoly == pg.info.subpolytopes[1]
pgD == Len(pg.info.symmetryMatrix)
pgAlphabet == polygenAlphabet(pgD)
pgRelations == getRelations(pgC, pgAlphabet)

\* poly.active[i], undefined (falsy) past the end of the array
isActive(poly, i) == i < Len(poly.active) /\ poly.active[i + 1]

\* some(x => x) over a boolean array
some(a) == \E k \in 1..Len(a) : a[k]

\* getOrthogonalStabilizingMirrors gone wrong: no mirror is found
noStabilizingMirrors(S, poly, gens) == << >>

\* getOrthogonalStabilizingMirrors(subgens): the inactive mirrors orthogonal
\* to every mirror of subgens, in increasing order
RECURSIVE orthogonalFrom(_, _, _, _)
orthogonalFrom(S, poly, gens, m) ==
  IF m >= Len(S) THEN << >>
  ELSE (IF /\ \A k \in 1..Len(gens) : fracIs(S[gens[k] + 1][m + 1], 2)
           /\ ~isActive(poly, m)
        THEN <<m>> ELSE << >>) \o orthogonalFrom(S, poly, gens, m + 1)

getOrthogonalStabilizingMirrors(S, poly, gens) == orthogonalFrom(S, poly, gens, 0)

\* the inactive mirrors among 0..d-1, in increasing order
RECURSIVE inactiveFrom(_, _, _)
inactiveFrom(poly, d, m) ==
  IF m >= d THEN << >>
  ELSE (IF isActive(poly, m) THEN << >> ELSE <<m>>) \o inactiveFrom(poly, d, m + 1)

\* mirrors as one-letter subgroup generator words
mirrorWords(alpha, mirrors) == [k \in 1..Len(mirrors) |-> << alpha[mirrors[k] + 1] >>]

\* getOrbit(cosetReps, base) on the vertex table vct; a hole of cosetReps
\* stays a hole
getOrbit(vct, alpha, cosetReps, base) ==
  [r \in 1..Len(cosetReps) |->
     IF cosetReps[r] = HoleWord THEN Hole
     ELSE [b \in 1..Len(base) |-> applyWord(vct, alpha, base[b], cosetReps[r], 1).value]]

getOrbitThrows(vct, alpha, cosetReps, base) ==
  \E r \in 1..Len(cosetReps) : \E b \in 1..Len(base) :
     cosetReps[r] # HoleWord /\ applyWord(vct, alpha, base[b], cosetReps[r], 1).thrown

\* the vertices of the seed face of mirrors i, j (empty: no face)
RECURSIVE faceSeedBoth(_, _, _, _, _, _)
faceSeedBoth(vct, alpha, i, j, k, c) ==
  IF k >= c THEN << >>
  ELSE LET word == repeat(<<alpha[i + 1], alpha[j + 1]>>, k)
       IN  << applyWord(vct, alpha, 0, word, 1).value,
              applyWord(vct, alpha, 0, <<alpha[j + 1]>> \o word, 1).value >>
           \o faceSeedBoth(vct, alpha, i, j, k + 1, c)

RECURSIVE faceSeedOne(_, _, _, _, _, _)
faceSeedOne(vct, alpha, i, j, k, c) ==
  IF k >= c THEN << >>
  ELSE << applyWord(vct, alpha, 0, repeat(<<alpha[i + 1], alpha[j + 1]>>, k), 1).value >>
       \o faceSeedOne(vct, alpha, i, j, k + 1, c)

\* the seed face gone wrong: one active mirror is treated like two
faceSeedAlwaysBoth(vct, alpha, S, C, poly, i, j) ==
  IF isActive(poly, i) \/ isActive(poly, j)
  THEN faceSeedBoth(vct, alpha, i, j, 0, C[i + 1][j + 1])
  ELSE << >>

faceSeed(vct, alpha, S, C, poly, i, j) ==
  IF isActive(poly, i) /\ isActive(poly, j)
  THEN faceSeedBoth(vct, alpha, i, j, 0, C[i + 1][j + 1])
  ELSE IF (isActive(poly, i) \/ isActive(poly, j)) /\ ~fracIs(S[i + 1][j + 1], 2)
  THEN faceSeedOne(vct, alpha, i, j, 0, C[i + 1][j + 1])
  ELSE << >>

\* new CosetTable(alphabet, relations, subgens) followed by solve()
newTableAndSolve(generators, rels, subs) ==
  LET in == [generators |-> generators, relations |-> rels, subgens |-> subs,
             isCoxeter |-> TRUE]
  IN  /\ alphabet' = constructed(in).alphabet
      /\ isCoxeter' = constructed(in).isCoxeter
      /\ relations' = constructed(in).relations
      /\ subgens' = constructed(in).subgens
      /\ table' = constructed(in).table
      /\ equivalence' = constructed(in).equivalence
      /\ deadQueue' = constructed(in).deadQueue
      /\ isSolved' = FALSE
      /\ hlt' = [MAX_ITER |-> DefaultMaxIter, current |-> 0, iter |-> 0, idx |-> 0]
      /\ scan' = NoScan
      /\ coin' = NoCoin
      /\ thrown' = "none"
      /\ pc' = "hlt_seed"

\* validation gone wrong: the check of the snub nodes is missing
validationErrorNoSnub(info) ==
  IF Len(info.symmetryMatrix) > 4 \/ Len(info.symmetryMatrix) < 2 THEN ErrDimension
  ELSE IF info.combineMethod # "none" THEN ErrCombine
  ELSE IF some(info.subpolytopes[1].dual) THEN ErrDual
  ELSE "none"

\* validation gone wrong: the dimension check is the one its message announces
validationErrorUpTo3(info) ==
  IF Len(info.symmetryMatrix) > 3 \/ Len(info.symmetryMatrix) < 2 THEN ErrDimension
  ELSE IF info.combineMethod # "none" THEN ErrCombine
  ELSE IF some(info.subpolytopes[1].dual) THEN ErrDual
  ELSE IF some(info.subpolytopes[1].snub) THEN ErrSnub
  ELSE "none"

\* the error polygen throws on a parsed description, "none" when it is accepted
validationError(info) ==
  IF Len(info.symmetryMatrix) > 4 \/ Len(info.symmetryMatrix) < 2 THEN ErrDimension
  ELSE IF info.combineMethod # "none" THEN ErrCombine
  ELSE IF some(info.subpolytopes[1].dual) THEN ErrDual
  ELSE IF some(info.subpolytopes[1].snub) THEN ErrSnub
  ELSE "none"

\* parse the diagram and check that the input is valid
pgParse ==
  /\ pg.pc = "start"
  /\ \E info \in { parsePlaintextCoxeterDiagram(pg.diagram) } :
       pg' = IF info.thrown
             THEN [pg EXCEPT !.pc = "threw", !.info = info, !.error = info.error]
             ELSE IF validationError(info) # "none"
             THEN [pg EXCEPT !.pc = "threw", !.info = info, !.error = validationError(info)]
             ELSE [pg EXCEPT !.pc = "validated", !.info = info]
  /\ UNCHANGED <<ctVars, pc, hlt, scan, coin, thrown, calls>>

\* generate vertices: the table of the subgroup of the inactive mirrors
pgVertices ==
  /\ pg.pc = "validated"
  /\ LET inactive == inactiveFrom(pgPoly, pgD, 0)
     IN  newTableAndSolve(pgAlphabet, pgRelations, mirrorWords(pgAlphabet, inactive))
  /\ pg' = [pg EXCEPT !.pc = "vertices"]
  /\ UNCHANGED calls

\* vct.solve() returned: one vertex per representative
pgVerticesDone ==
  /\ pg.pc = "vertices"
  /\ pc = "returned"
  /\ \E r \in { getRepresentatives(table, alphabet, isCoxeter) } :
       pg' = IF r.thrown THEN [pg EXCEPT !.pc = "threw", !.error = ErrEmptyEntry]
             ELSE [pg EXCEPT !.pc = "edges", !.vct = table, !.vertices = r.reps, !.i = 0]
  /\ UNCHANGED <<ctVars, pc, hlt, scan, coin, thrown, calls>>

\* edges: mirror i is not active
pgEdgeSkip ==
  /\ pg.pc = "edges"
  /\ pg.i < pgD
  /\ ~isActive(pgPoly, pg.i)
  /\ pg' = [pg EXCEPT !.i = @ + 1]
  /\ UNCHANGED <<ctVars, pc, hlt, scan, coin, thrown, calls>>

\* edges: the active mirror i produces the seed edge [0, 0 * i]
pgEdgeStart ==
  /\ pg.pc = "edges"
  /\ pg.i < pgD
  /\ isActive(pgPoly, pg.i)
  /\ LET a == applyWord(pg.vct, pgAlphabet, 0, <<pgAlphabet[pg.i + 1]>>, 1)
         stab == <<pg.i>> \o getOrthogonalStabilizingMirrors(pgS, pgPoly, <<pg.i>>)
     IN  IF a.thrown
         THEN /\ pg' = [pg EXCEPT !.pc = "threw", !.error = ErrApplyWord]
              /\ UNCHANGED <<ctVars, pc, hlt, scan, coin, thrown>>
         ELSE /\ pg' = [pg EXCEPT !.pc = "edge_solve", !.seed = <<0, a.value>>]
              /\ newTableAndSolve(pgAlphabet, pgRelations, mirrorWords(pgAlphabet, stab))
  /\ UNCHANGED calls

\* ect.solve() returned: the orbit of the seed edge
pgEdgeDone ==
  /\ pg.pc = "edge_solve"
  /\ pc = "returned"
  /\ \E r \in { getRepresentatives(table, alphabet, isCoxeter) } :
       pg' = IF r.thrown THEN [pg EXCEPT !.pc = "threw", !.error = ErrEmptyEntry]
             ELSE IF getOrbitThrows(pg.vct, pgAlphabet, r.reps, pg.seed)
             THEN [pg EXCEPT !.pc = "threw", !.error = ErrApplyWord]
             ELSE [pg EXCEPT !.pc = "edges", !.i = @ + 1,
                     !.edges = @ \o getOrbit(pg.vct, pgAlphabet, r.reps, pg.seed)]
  /\ UNCHANGED <<ctVars, pc, hlt, scan, coin, thrown, calls>>

\* the edge loop is over
pgEdgesEnd ==
  /\ pg.pc = "edges"
  /\ pg.i >= pgD
  /\ pg' = [pg EXCEPT !.pc = "faces", !.i = 0]
  /\ UNCHANGED <<ctVars, pc, hlt, scan, coin, thrown, calls>>

\* the pairs of mirrors the face loop runs over
pgPairs == combinations(arange(pgD), 2)
pgPairI == pgPairs[pg.i + 1][1]
pgPairJ == pgPairs[pg.i + 1][2]
pgFaceSeed == faceSeed(pg.vct, pgAlphabet, pgS, pgC, pgPoly, pgPairI, pgPairJ)

\* faces: the pair generates no face (f0 is empty)
pgFaceSkip ==
  /\ pg.pc = "faces"
  /\ pg.i < Len(pgPairs)
  /\ pgFaceSeed = << >>
  /\ pg' = [pg EXCEPT !.i = @ + 1]
  /\ UNCHANGED <<ctVars, pc, hlt, scan, coin, thrown, calls>>

\* faces: the pair generates the seed face f0
pgFaceStart ==
  /\ pg.pc = "faces"
  /\ pg.i < Len(pgPairs)
  /\ pgFaceSeed # << >>
  /\ LET stab == <<pgPairI, pgPairJ>>
                 \o getOrthogonalStabilizingMirrors(pgS, pgPoly, <<pgPairI, pgPairJ>>)
     IN  IF Undef \in Range(pgFaceSeed)
         THEN /\ pg' = [pg EXCEPT !.pc = "threw", !.error = ErrApplyWord]
              /\ UNCHANGED <<ctVars, pc, hlt, scan, coin, thrown>>
         ELSE /\ pg' = [pg EXCEPT !.pc = "face_solve", !.seed = pgFaceSeed]
              /\ newTableAndSolve(pgAlphabet, pgRelations, mirrorWords(pgAlphabet, stab))
  /\ UNCHANGED calls

\* fct.solve() returned: the orbit of the seed face, and its faceinfo entry
pgFaceDone ==
  /\ pg.pc = "face_solve"
  /\ pc = "returned"
  /\ \E r \in { getRepresentatives(table, alphabet, isCoxeter) } :
     \E stab \in { <<pgPairI, pgPairJ>>
                   \o getOrthogonalStabilizingMirrors(pgS, pgPoly, <<pgPairI, pgPairJ>>) } :
       pg' = IF r.thrown THEN [pg EXCEPT !.pc = "threw", !.error = ErrEmptyEntry]
             ELSE IF getOrbitThrows(pg.vct, pgAlphabet, r.reps, pg.seed)
             THEN [pg EXCEPT !.pc = "threw", !.error = ErrApplyWord]
             ELSE [pg EXCEPT !.pc = "faces", !.i = @ + 1,
                     !.faces = @ \o getOrbit(pg.vct, pgAlphabet, r.reps, pg.seed),
                     !.faceinfo = Append(@, [generators |-> <<pgPairI, pgPairJ>>,
                                             stabilizers |-> stab, ct |-> table,
                                             idx |-> Len(pg.faces)])]
  /\ UNCHANGED <<ctVars, pc, hlt, scan, coin, thrown, calls>>

\* the face loop is over and d <= 3: no cells, return the polytope
pgReturn ==
  /\ pg.pc = "faces"
  /\ pg.i >= Len(pgPairs)
  /\ pgD <= 3
  /\ pg' = [pg EXCEPT !.pc = "returned", !.cells = << >>]
  /\ UNCHANGED <<ctVars, pc, hlt, scan, coin, thrown, calls>>

\* the face loop is over and d > 3: the loop over the triples of mirrors
pgCellsBegin ==
  /\ pg.pc = "faces"
  /\ pg.i >= Len(pgPairs)
  /\ pgD > 3
  /\ pg' = [pg EXCEPT !.pc = "cells", !.i = 0, !.cells = << >>]
  /\ UNCHANGED <<ctVars, pc, hlt, scan, coin, thrown, calls>>

\* cells: the triple does not generate a cell (continue)
pgCellSkip ==
  /\ pg.pc = "cells"
  /\ pg.i < Len(combinations(arange(pgD), 3))
  /\ LET combo == combinations(arange(pgD), 3)[pg.i + 1]
         activeCount == Cardinality({ n \in 1..3 : isActive(pgPoly, combo[n]) })
         orthoCount == Cardinality({ n \in { <<1, 2>>, <<1, 3>>, <<2, 3>> } :
                          fracIs(pgS[combo[n[1]] + 1][combo[n[2]] + 1], 2) })
     IN  orthoCount > activeCount \/ activeCount = 0
  /\ pg' = [pg EXCEPT !.i = @ + 1]
  /\ UNCHANGED <<ctVars, pc, hlt, scan, coin, thrown, calls>>

\* the test of the triple gone wrong: any triple with an active mirror
\* generates cells
pgCellStartAnyActive ==
  /\ pg.pc = "cells"
  /\ pg.i < Len(combinations(arange(pgD), 3))
  /\ LET combo == combinations(arange(pgD), 3)[pg.i + 1]
         activeCount == Cardinality({ n \in 1..3 : isActive(pgPoly, combo[n]) })
     IN  /\ activeCount # 0
         /\ newTableAndSolve(pgAlphabet, pgRelations,
              mirrorWords(pgAlphabet,
                combo \o getOrthogonalStabilizingMirrors(pgS, pgPoly, combo)))
  /\ pg' = [pg EXCEPT !.pc = "cell_solve"]
  /\ UNCHANGED calls

\* cells: the triple generates cells; cct is the table of the subgroup of the
\* three mirrors and the inactive mirrors orthogonal to all three
pgCellStart ==
  /\ pg.pc = "cells"
  /\ pg.i < Len(combinations(arange(pgD), 3))
  /\ LET combo == combinations(arange(pgD), 3)[pg.i + 1]
         activeCount == Cardinality({ n \in 1..3 : isActive(pgPoly, combo[n]) })
         orthoCount == Cardinality({ n \in { <<1, 2>>, <<1, 3>>, <<2, 3>> } :
                          fracIs(pgS[combo[n[1]] + 1][combo[n[2]] + 1], 2) })
     IN  /\ ~(orthoCount > activeCount \/ activeCount = 0)
         /\ newTableAndSolve(pgAlphabet, pgRelations,
              mirrorWords(pgAlphabet,
                combo \o getOrthogonalStabilizingMirrors(pgS, pgPoly, combo)))
  /\ pg' = [pg EXCEPT !.pc = "cell_solve"]
  /\ UNCHANGED calls

\* cct.solve() returned: reps, and one empty cell per representative
pgCellDone ==
  /\ pg.pc = "cell_solve"
  /\ pc = "returned"
  /\ \E r \in { getRepresentatives(table, alphabet, isCoxeter) } :
       pg' = IF r.thrown THEN [pg EXCEPT !.pc = "threw", !.error = ErrEmptyEntry]
             ELSE [pg EXCEPT !.pc = "cell_faces", !.j = 0, !.reps = r.reps,
                     !.toAdd = [n \in 1..Len(r.reps) |-> << >>]]
  /\ UNCHANGED <<ctVars, pc, hlt, scan, coin, thrown, calls>>

\* cells, the loop over faceinfo: an entry whose generators are not both in
\* the triple is passed over; for any other, sct is the table of the face's
\* stabilizers inside the group of the three mirrors
pgCellFace ==
  /\ pg.pc = "cell_faces"
  /\ pg.j < Len(pg.faceinfo)
  /\ LET combo == combinations(arange(pgD), 3)[pg.i + 1]
         info == pg.faceinfo[pg.j + 1]
         subalphabet == [n \in 1..3 |-> pgAlphabet[combo[n] + 1]]
         keptRels == { n \in 1..Len(pgRelations) :
                         Range(pgRelations[n]) \subseteq Range(subalphabet) }
         subrelations == [m \in 1..Cardinality(keptRels) |->
                            pgRelations[CHOOSE n \in keptRels :
                               Cardinality({ x \in keptRels : x < n }) = m - 1]]
         keptStab == { n \in 1..Len(info.stabilizers) :
                         info.stabilizers[n] \in Range(combo) }
         stab == [m \in 1..Cardinality(keptStab) |->
                    info.stabilizers[CHOOSE n \in keptStab :
                       Cardinality({ x \in keptStab : x < n }) = m - 1]]
     IN  IF Range(info.generators) \subseteq Range(combo)
         THEN /\ pg' = [pg EXCEPT !.pc = "cell_face_solve"]
              /\ newTableAndSolve(subalphabet, subrelations, mirrorWords(pgAlphabet, stab))
         ELSE /\ pg' = [pg EXCEPT !.j = @ + 1]
              /\ UNCHANGED <<ctVars, pc, hlt, scan, coin, thrown>>
  /\ UNCHANGED calls

\* the cell's faces gone wrong: reps[r] is applied to face 0 instead of the
\* faces of orbot
pgCellFaceDoneFromZero ==
  /\ pg.pc = "cell_face_solve"
  /\ pc = "returned"
  /\ \E r \in { getRepresentatives(table, alphabet, isCoxeter) } :
     \E info \in { pg.faceinfo[pg.j + 1] } :
     \E orbot \in { IF r.thrown THEN << >>
                    ELSE [q \in 1..Len(r.reps) |->
                            applyWord(info.ct, pgAlphabet, 0, r.reps[q], 1)] } :
     \E images \in { [n \in 1..Len(pg.reps) |->
                       [q \in 1..Len(orbot) |->
                          applyWord(info.ct, pgAlphabet, 0, pg.reps[n], 1)]] } :
       pg' = IF r.thrown THEN [pg EXCEPT !.pc = "threw", !.error = ErrEmptyEntry]
             ELSE IF \E n \in 1..Len(images) : \E q \in 1..Len(orbot) : images[n][q].thrown
             THEN [pg EXCEPT !.pc = "threw", !.error = ErrApplyWord]
             ELSE [pg EXCEPT !.pc = "cell_faces", !.j = @ + 1,
                     !.toAdd = [n \in 1..Len(pg.toAdd) |->
                                  pg.toAdd[n] \o [q \in 1..Len(orbot) |->
                                                    images[n][q].value + info.idx]]]
  /\ UNCHANGED <<ctVars, pc, hlt, scan, coin, thrown, calls>>

\* sct.solve() returned: orbot is the orbit of face 0 of info.ct under the
\* group of the three mirrors; cell r receives the image of orbot under reps[r]
pgCellFaceDone ==
  /\ pg.pc = "cell_face_solve"
  /\ pc = "returned"
  /\ \E r \in { getRepresentatives(table, alphabet, isCoxeter) } :
     \E info \in { pg.faceinfo[pg.j + 1] } :
     \E orbot \in { IF r.thrown THEN << >>
                    ELSE [q \in 1..Len(r.reps) |->
                            applyWord(info.ct, pgAlphabet, 0, r.reps[q], 1)] } :
     \E images \in { [n \in 1..Len(pg.reps) |->
                       [q \in 1..Len(orbot) |->
                          IF orbot[q].thrown THEN orbot[q]
                          ELSE applyWord(info.ct, pgAlphabet, orbot[q].value,
                                         pg.reps[n], 1)]] } :
       pg' = IF r.thrown THEN [pg EXCEPT !.pc = "threw", !.error = ErrEmptyEntry]
             ELSE IF \E n \in 1..Len(images) : \E q \in 1..Len(orbot) : images[n][q].thrown
             THEN [pg EXCEPT !.pc = "threw", !.error = ErrApplyWord]
             ELSE [pg EXCEPT !.pc = "cell_faces", !.j = @ + 1,
                     !.toAdd = [n \in 1..Len(pg.toAdd) |->
                                  pg.toAdd[n] \o [q \in 1..Len(orbot) |->
                                                    images[n][q].value + info.idx]]]
  /\ UNCHANGED <<ctVars, pc, hlt, scan, coin, thrown, calls>>

\* the loop over faceinfo is over: cells.push(...toAdd)
pgCellPush ==
  /\ pg.pc = "cell_faces"
  /\ pg.j >= Len(pg.faceinfo)
  /\ pg' = [pg EXCEPT !.pc = "cells", !.i = @ + 1, !.cells = @ \o pg.toAdd]
  /\ UNCHANGED <<ctVars, pc, hlt, scan, coin, thrown, calls>>

\* the loop over the triples is over: return the polytope
pgCellsReturn ==
  /\ pg.pc = "cells"
  /\ pg.i >= Len(combinations(arange(pgD), 3))
  /\ pg' = [pg EXCEPT !.pc = "returned"]
  /\ UNCHANGED <<ctVars, pc, hlt, scan, coin, thrown, calls>>

(***************************************************************************)
(* Specification                                                            *)
(***************************************************************************)
Next ==
  \/ \E m \in MaxIterChoices : solve(m)
  \/ \E m \in MaxIterChoices : solveAgain(m)
  \/ hltSeedScan
  \/ hltSeedDone
  \/ hltLoopEnter
  \/ hltLoopLimit
  \/ hltLoopEndThrow
  \/ hltLoopEndReturn
  \/ hltRelScan
  \/ hltRelsDone
  \/ hltFillDefine
  \/ hltFillSkip
  \/ hltNext
  \/ scanThrow
  \/ scanComplete
  \/ scanCoincidence
  \/ scanDeduce
  \/ scanDefine
  \/ coincidenceShift
  \/ coincidenceGen
  \/ coincidenceReturn
  \/ solveCompress
  \/ pgParse
  \/ pgVertices
  \/ pgVerticesDone
  \/ pgEdgeSkip
  \/ pgEdgeStart
  \/ pgEdgeDone
  \/ pgEdgesEnd
  \/ pgFaceSkip
  \/ pgFaceStart
  \/ pgFaceDone
  \/ pgReturn
  \/ pgCellsBegin
  \/ pgCellSkip
  \/ pgCellStart
  \/ pgCellDone
  \/ pgCellFace
  \/ pgCellFaceDone
  \/ pgCellPush
  \/ pgCellsReturn

Spec == Init /\ [][Next]_vars

\* a client constructs a table over two generators, or over three with one of
\* four subgroups
InitLive ==
  /\ InitClient
  /\ \/ Len(alphabet) # 3
     \/ subgens \in { << >>, << <<0, 1, 2>> >>, << <<1>>, <<0, 1, 2>> >>, << <<2>>, <<0, 1>> >> }

\* solve and everything it calls
NextLive ==
  \/ \E m \in MaxIterChoices : solve(m)
  \/ \E m \in MaxIterChoices : solveAgain(m)
  \/ hltSeedScan
  \/ hltSeedDone
  \/ hltLoopEnter
  \/ hltLoopLimit
  \/ hltLoopEndThrow
  \/ hltLoopEndReturn
  \/ hltRelScan
  \/ hltRelsDone
  \/ hltFillDefine
  \/ hltFillSkip
  \/ hltNext
  \/ scanThrow
  \/ scanComplete
  \/ scanCoincidence
  \/ scanDeduce
  \/ scanDefine
  \/ coincidenceShift
  \/ coincidenceGen
  \/ coincidenceReturn
  \/ solveCompress

\* the program is sequential and deterministic: a step that can be taken is
\* taken
LiveSpec == InitLive /\ [][NextLive]_vars /\ WF_vars(NextLive)

(***************************************************************************)
(* The front of polygen on many diagrams: parse, validate, and the start    *)
(* of the first enumeration                                                 *)
(***************************************************************************)
\* longest string of arbitrary characters, and most nodes of a linear diagram
MaxRawLen == 4
MaxNodes == 5

\* characters of the arbitrary strings: nodes, a digit, the virtual node
\* marker and two targets, the fraction bar, the space, an invalid character
RawChars == {"x", "o", "3", "*", "a", "b", "/", " ", "!"}

RECURSIVE StringsOfLen(_)
StringsOfLen(k) ==
  IF k = 0 THEN { << >> }
  ELSE { Append(str, c) : str \in StringsOfLen(k - 1), c \in RawChars }

RawDiagrams == UNION { StringsOfLen(k) : k \in 0..MaxRawLen }

\* linear diagrams of n nodes
RECURSIVE LinearOfNodes(_)
LinearOfNodes(n) ==
  IF n <= 1 THEN { <<"x">>, <<"o">> }
  ELSE { d \o e \o nd : d \in LinearOfNodes(n - 1),
                        e \in { <<"3">>, <<" ">> }, nd \in { <<"x">>, <<"o">> } }

LinearDiagrams == UNION { LinearOfNodes(n) : n \in 1..MaxNodes }

\* node groups, edge slots and what may follow the last node
NodeGroups == { <<"x">>, <<"o">>, <<"s">>, <<"m">>, <<"p">>, <<"q">>,
                <<"x","o">>, <<"o","x">> }
EdgeSlots == { <<"3">>, <<" ">>, <<"4">>, <<"5","/","2">>, <<"3","*","a">>,
               <<"*","a","3">>, <<"3","*","z">>, <<"*","b"," ">> }
TrailingSlots == { << >>, <<"3">>, <<"3","*","b">>, <<"*">> }

NodeEdgeDiagrams ==
  { n1 \o t : n1 \in NodeGroups, t \in TrailingSlots }
  \cup { n1 \o e1 \o n2 \o t :
           n1 \in NodeGroups, e1 \in EdgeSlots, n2 \in NodeGroups, t \in TrailingSlots }
  \cup { n1 \o e1 \o n2 \o e2 \o n3 \o t :
           n1 \in { <<"x">>, <<"o">>, <<"x","o">> }, e1 \in EdgeSlots,
           n2 \in { <<"x">>, <<"o">>, <<"x","o">> }, e2 \in EdgeSlots,
           n3 \in { <<"x">>, <<"o">>, <<"x","o">> }, t \in { << >>, <<"3","*","b">> } }

\* diagrams with lace indicators
LaceSuffixes == { <<"&","#","x">>, <<"&","#","x","t">>, <<"&","#","m">>,
                  <<"&","#","x","r">>, <<"&","#">>, <<"&","#","q">>,
                  <<"&","#","x","x">>, <<"&","#","x","&","#","x">>,
                  <<"&","#","&","#">> }

LaceDiagrams ==
  { n1 \o e1 \o n2 \o l :
      n1 \in { <<"x">>, <<"x","o">>, <<"o","x">>, <<"x","x","o">> },
      e1 \in { <<"3">>, <<" ">>, <<"3","*","a">> },
      n2 \in { <<"o">>, <<"x","o">>, <<"o","o">>, <<"x">> },
      l \in LaceSuffixes }

FrontDiagrams ==
  Diagrams \cup RawDiagrams \cup LinearDiagrams \cup NodeEdgeDiagrams \cup LaceDiagrams

\* a caller enters polygen(diagram) with one of these diagrams
InitFront ==
  \E diagram \in FrontDiagrams :
    /\ alphabet = << >>
    /\ isCoxeter = TRUE
    /\ relations = << >>
    /\ subgens = << >>
    /\ table = << >>
    /\ equivalence = << >>
    /\ deadQueue = << >>
    /\ isSolved = FALSE
    /\ pc = "idle"
    /\ hlt = NoHlt
    /\ scan = NoScan
    /\ coin = NoCoin
    /\ thrown = "none"
    /\ calls = 0
    /\ pg = [NoPg EXCEPT !.pc = "start", !.diagram = diagram]

NextFront ==
  \/ pgParse
  \/ pgVertices

FrontSpec == InitFront /\ [][NextFront]_vars

(***************************************************************************)
(* Properties of the solved table                                           *)
(***************************************************************************)
\* solve() returned normally: _hlt and _compress ran, or the table was solved
solveReturned == pc = "returned" /\ isSolved

\* C1: after solve() returns on a table with self-inverse generators, every
\* generator is an involution on the cosets: getEntry(a, g) = b implies
\* getEntry(b, g) = a, and applyWord(applyWord(c, g), g) = c.
C1_GeneratorsAreInvolutions ==
  (solveReturned /\ isCoxeter) =>
    \A a \in 0..(length(table) - 1) : \A g \in 0..(genCount - 1) :
      LET b == getEntry(table, a, g)
          once == applyWord(table, alphabet, a, <<alphabet[g + 1]>>, 1)
      IN  /\ b \in 0..(length(table) - 1)
          /\ getEntry(table, b, g) = a
          /\ ~once.thrown
          /\ applyWord(table, alphabet, once.value, <<alphabet[g + 1]>>, 1)
               = [thrown |-> FALSE, value |-> a]

\* C1 happens: a solved table with self-inverse generators where a generator
\* moves a coset
C1_Witness ==
  /\ solveReturned /\ isCoxeter
  /\ length(table) >= 6
  /\ \E a \in 0..(length(table) - 1) : \E g \in 0..(genCount - 1) :
       getEntry(table, a, g) # a

\* C2: for the finite Coxeter group of the diagram a -p- b -q- c and the
\* trivial subgroup, length after solve() is the order of the group,
\* 8pq / (2p + 2q - pq); for the relators (ba)^4, (ca)^2, (cb)^3 it is 48.
C2_TrivialSubgroupCountsGroup ==
  LET abc == <<"a", "b", "c">>
      ints(rels) == [i \in 1..Len(rels) |-> wordToInt(abc, rels[i])]
      trivial == solveReturned /\ isCoxeter /\ alphabet = abc /\ subgens = << >>
  IN  /\ \A p \in 2..MaxLabel : \A q \in 2..MaxLabel :
           (/\ trivial
            /\ 2 * p + 2 * q - p * q > 0
            /\ relations = ints(getRelations(linearMatrix(p, q), abc)))
           => length(table) * (2 * p + 2 * q - p * q) = 8 * p * q
      /\ (/\ trivial
          /\ relations = ints(<< <<"b","a","b","a","b","a","b","a">>,
                                 <<"c","a","c","a">>,
                                 <<"c","b","c","b","c","b">> >>))
         => length(table) = 48

\* C2 happens: the table of x4o3o's group over the trivial subgroup is solved
C2_Witness ==
  /\ solveReturned /\ isCoxeter /\ subgens = << >>
  /\ relations = << <<1,0,1,0,1,0,1,0>>, <<2,0,2,0>>, <<2,1,2,1,2,1>> >>
  /\ length(table) = 48

\* C3: whenever solve() returns normally, every entry getEntry(c, g) of the
\* table is defined and lies in [0, length), and the equivalence array is the
\* identity on [0, length).
C3_SolvedTableComplete ==
  solveReturned =>
    /\ \A c \in 0..(length(table) - 1) : \A g \in 0..(genCount - 1) :
         getEntry(table, c, g) \in 0..(length(table) - 1)
    /\ Len(equivalence) = length(table)
    /\ \A c \in 0..(length(table) - 1) : equivalence[c + 1] = c

\* C3 happens: solve() returned and _compress removed dead rows (the loop of
\* _hlt ended on a longer table)
C3_Witness ==
  /\ solveReturned
  /\ length(table) >= 2
  /\ hlt.current > length(table)

\* C4: after solve() returns, every subgroup generator word w stabilises
\* coset 0: applyWord(0, w) = 0.
C4_SubgroupStabilisesCosetZero ==
  solveReturned =>
    \A k \in 1..Len(subgens) :
      applyWord(table, alphabet, 0,
                [j \in 1..Len(subgens[k]) |-> alphabet[subgens[k][j] + 1]], 1)
        = [thrown |-> FALSE, value |-> 0]

\* C4 happens: a solved table of several cosets whose subgroup has a
\* generator word of two letters or more
C4_Witness ==
  /\ solveReturned
  /\ length(table) >= 2
  /\ \E k \in 1..Len(subgens) : Len(subgens[k]) >= 2

\* C5: on a solved table getRepresentatives() returns `length` words, the
\* word of coset 0 is empty, and applyWord(0, r[i]) = i for every coset i.
C5_RepresentativesReachTheirCoset ==
  solveReturned =>
    LET r == getRepresentatives(table, alphabet, isCoxeter)
    IN  /\ ~r.thrown
        /\ Len(r.reps) = length(table)
        /\ r.reps[1] = << >>
        /\ \A i \in 0..(length(table) - 1) :
             /\ r.reps[i + 1] # HoleWord
             /\ applyWord(table, alphabet, 0, r.reps[i + 1], 1)
                  = [thrown |-> FALSE, value |-> i]

\* C5 happens: a solved table with a coset whose representative has two
\* letters or more
C5_Witness ==
  /\ solveReturned
  /\ length(table) >= 4
  /\ \E i \in 1..length(table) :
       Len(getRepresentatives(table, alphabet, isCoxeter).reps[i]) >= 2

(***************************************************************************)
(* Properties of the iteration limit                                        *)
(***************************************************************************)
\* C6: solve(maxIterations) never returns silently with an unfinished
\* enumeration: when maxIterations iterations are done and the coset pointer
\* is not at the end of the table, the next step throws 'Iteration limit
\* exceeded', _compress does not run (table and equivalence are untouched) and
\* the table stays unsolved; and solve() has returned only on a solved table.
C6_IterationLimitThrows ==
  /\ [][(pc = "hlt_loop" /\ hlt.current < Len(table) /\ hlt.iter >= hlt.MAX_ITER)
          => /\ pc' = "threw"
             /\ thrown' = ErrIterationLimit
             /\ ~isSolved'
             /\ table' = table
             /\ equivalence' = equivalence]_vars
  /\ [](pc = "returned" => isSolved)
  /\ []((pc = "threw" /\ thrown = ErrIterationLimit) => ~isSolved)

\* C6 happens: solve(k) with k >= 1 threw with the pointer inside the table
C6_Witness ==
  /\ pc = "threw" /\ thrown = ErrIterationLimit
  /\ hlt.MAX_ITER >= 1
  /\ hlt.iter = hlt.MAX_ITER + 1
  /\ hlt.current < Len(table)
  /\ Len(table) >= 2
  /\ ~isSolved

\* C7: after solve() failed with 'Iteration limit exceeded' no partial table
\* is exposed: length and getEntry show nothing of the enumeration (one coset,
\* no entry), and a later solve() call enters _hlt on that table, not on the
\* partial one.
C7_NoPartialTableExposed ==
  /\ (pc = "threw" /\ thrown = ErrIterationLimit) =>
       /\ length(table) = 1
       /\ \A g \in 0..(genCount - 1) : getEntry(table, 0, g) = Undef
  /\ (pc = "hlt_seed" /\ hlt.idx = 0 /\ calls >= 2) =>
       /\ length(table) = 1
       /\ \A g \in 0..(genCount - 1) : getEntry(table, 0, g) = Undef

\* C7 fails here: the second solve() enters _hlt on the rows and entries the
\* failed call left, and the queries answer from them
C7_Witness ==
  /\ pc = "hlt_seed" /\ hlt.idx = 0 /\ calls = 2
  /\ length(table) >= 3
  /\ \E g \in 0..(genCount - 1) : getEntry(table, 0, g) # Undef
  /\ ~applyWord(table, alphabet, 0, <<alphabet[1]>>, 1).thrown

(***************************************************************************)
(* Properties of polygen                                                    *)
(***************************************************************************)
\* C8: polygen('x4o3o') returns 8 vertices, 12 edges and 6 faces, and every
\* face is a list of 4 distinct vertex indices whose cyclically consecutive
\* pairs are edges of the result.
C8_CubeIsGenerated ==
  pg.diagram = <<"x","4","o","3","o">> =>
    /\ pg.pc # "threw"
    /\ pg.pc = "returned" =>
         /\ Len(pg.vertices) = 8
         /\ Len(pg.edges) = 12
         /\ Len(pg.faces) = 6
         /\ \A f \in 1..Len(pg.faces) :
              LET face == pg.faces[f]
              IN  /\ Len(face) = 4
                  /\ \A k \in 1..4 : face[k] \in 0..(Len(pg.vertices) - 1)
                  /\ \A k \in 1..4 : \A l \in 1..4 : k # l => face[k] # face[l]
                  /\ \A k \in 1..4 : \E e \in 1..Len(pg.edges) :
                       {pg.edges[e][1], pg.edges[e][2]} = {face[k], face[(k % 4) + 1]}

\* C8 happens: polygen('x4o3o') returned a polytope with faces
C8_Witness ==
  /\ pg.diagram = <<"x","4","o","3","o">>
  /\ pg.pc = "returned"
  /\ Len(pg.faces) = 6
  /\ Len(pg.faces[1]) = 4

\* C9: polygen('x3o3o') returns 4 vertices, 6 edges and 4 faces, and every
\* face is a list of 3 distinct vertex indices whose cyclically consecutive
\* pairs are edges of the result.
C9_TetrahedronIsGenerated ==
  pg.diagram = <<"x","3","o","3","o">> =>
    /\ pg.pc # "threw"
    /\ pg.pc = "returned" =>
         /\ Len(pg.vertices) = 4
         /\ Len(pg.edges) = 6
         /\ Len(pg.faces) = 4
         /\ \A f \in 1..Len(pg.faces) :
              LET face == pg.faces[f]
              IN  /\ Len(face) = 3
                  /\ \A k \in 1..3 : face[k] \in 0..(Len(pg.vertices) - 1)
                  /\ \A k \in 1..3 : \A l \in 1..3 : k # l => face[k] # face[l]
                  /\ \A k \in 1..3 : \E e \in 1..Len(pg.edges) :
                       {pg.edges[e][1], pg.edges[e][2]} = {face[k], face[(k % 3) + 1]}

\* C9 happens: polygen('x3o3o') returned a polytope with faces
C9_Witness ==
  /\ pg.diagram = <<"x","3","o","3","o">>
  /\ pg.pc = "returned"
  /\ Len(pg.faces) = 4
  /\ Len(pg.faces[1]) = 3

\* C10: polygen('x5/2o3o'): the diagram is parsed (with a symmetryMatrix entry
\* that differs from the coxeterMatrix entry), and polygen throws before any
\* coset enumeration is run.
C10_FractionalIsRejected ==
  (pg.diagram = <<"x","5","/","2","o","3","o">> /\ pg.pc # "start") =>
    /\ ~pg.info.thrown
    /\ \E i \in 1..Len(pgS) : \E j \in 1..Len(pgS) : ~fracIs(pgS[i][j], pgC[i][j])
    /\ pg.pc = "threw"
    /\ table = << >>

\* C10 fails here: polygen('x5/2o3o') ran the enumerations and returned
C10_Witness ==
  /\ pg.diagram = <<"x","5","/","2","o","3","o">>
  /\ pg.pc = "returned"
  /\ ~pg.info.thrown
  /\ ~fracIs(pgS[1][2], pgC[1][2])
  /\ Len(pg.vertices) = 20

(***************************************************************************)
(* Properties of the diagram parser and of polygen's validation            *)
(***************************************************************************)
\* parsePlaintextCoxeterDiagram returned a description of pg.diagram
parseAccepted == pg.pc # "start" /\ ~pg.info.thrown
\* parsePlaintextCoxeterDiagram threw on pg.diagram
parseThrew == pg.pc # "start" /\ pg.info.thrown

\* C11: polygen throws, without any coset enumeration, for every diagram
\* whose parsed combineMethod is not 'none' and for every diagram in which a
\* node of the first subpolytope is flagged dual or snub (node characters m,
\* p, s).
C11_UnsupportedKindsThrow ==
  parseAccepted =>
    LET first == pg.info.subpolytopes[1]
        flagged == some(first.dual) \/ some(first.snub)
        \* a node character of a diagram with one subpolytope, read off the text
        written == /\ pg.info.combineMethod = "none"
                   /\ \E i \in 1..Len(pg.diagram) :
                        /\ pg.diagram[i] \in {"m", "p", "s"}
                        /\ (i = 1 \/ pg.diagram[i - 1] # "*")
    IN  /\ written => flagged
        /\ (pg.info.combineMethod # "none" \/ flagged) =>
             /\ pg.pc = "threw"
             /\ pg.error \in {ErrDimension, ErrCombine, ErrDual, ErrSnub}
             /\ table = << >>
             /\ pc = "idle"
             /\ calls = 0

\* C11 happens: a three-node snub diagram was parsed and polygen threw on the
\* snub check, with no coset table built
C11_Witness ==
  /\ parseAccepted
  /\ pg.diagram = <<"s", "4", "s", "3", "s">>
  /\ pg.pc = "threw"
  /\ pg.error = ErrSnub
  /\ table = << >>

C14_EveryFailureIsSyntaxError ==
  parseThrew =>
    /\ pg.info.error = "DiagramSyntaxError"
    /\ pg.info.left >= 0
    /\ pg.info.right >= pg.info.left
    /\ pg.info.span = slice(pg.diagram, pg.info.left, pg.info.right)
    /\ Len(pg.info.details) >= 1

\* C14 fails here: the diagram ends in '*', and the parser left with the
\* TypeError of reading the character after it
C14_Witness ==
  /\ parseThrew
  /\ pg.diagram = <<"x", "3", "o", "*">>
  /\ pg.info.error = "TypeError"
  /\ pg.error = "TypeError"

\* C15: for every accepted diagram of n nodes, the symmetry matrix and the
\* Coxeter matrix are n x n, symmetric, and have 1 on the diagonal, also when
\* virtual nodes make an edge start and end at the same node.
C15_MatricesSymmetricUnitDiagonal ==
  parseAccepted =>
    LET n == Len(pg.info.symmetryMatrix)
    IN  /\ Len(pg.info.coxeterMatrix) = n
        /\ \A a \in 1..n :
             /\ Len(pg.info.symmetryMatrix[a]) = n
             /\ Len(pg.info.coxeterMatrix[a]) = n
             /\ pg.info.coxeterMatrix[a][a] = 1
             /\ pg.info.symmetryMatrix[a][a].num = pg.info.symmetryMatrix[a][a].den
             /\ \A b \in 1..n :
                  /\ pg.info.coxeterMatrix[a][b] = pg.info.coxeterMatrix[b][a]
                  /\ pg.info.symmetryMatrix[a][b] = pg.info.symmetryMatrix[b][a]

\* C15 fails here: 'x3o3*b' was accepted, and the edge from node 1 to the
\* virtual node *b wrote 3 on the diagonal of both matrices
C15_Witness ==
  /\ parseAccepted
  /\ pg.diagram = <<"x", "3", "o", "3", "*", "b">>
  /\ pg.info.coxeterMatrix = << <<1, 3>>, <<3, 3>> >>
  /\ pg.info.symmetryMatrix[2][2] = [num |-> 3, den |-> 1]

C17_LaceIndicator ==
  LET d == pg.diagram
      marks == { i \in 1..(Len(d) - 1) : d[i] = "&" /\ d[i + 1] = "#" }
      first == CHOOSE i \in marks : \A j \in marks : i <= j
      suffix == SubSeq(d, first + 2, Len(d))
      kind == [t \in { <<"x">>, <<"x", "t">>, <<"m">>, <<"x", "r">> } |->
                 IF t = <<"x">> THEN "lace prism"
                 ELSE IF t = <<"x", "t">> THEN "lace tower"
                 ELSE IF t = <<"m">> THEN "lace tegum" ELSE "lace ring"]
  IN  /\ (parseAccepted /\ marks # {}) =>
           /\ Cardinality(marks) = 1
           /\ suffix \in DOMAIN kind
           /\ pg.info.combineMethod = kind[suffix]
      /\ (pg.pc # "start" /\ marks # {}
            /\ (Cardinality(marks) > 1 \/ suffix \notin DOMAIN kind)) =>
           /\ pg.info.thrown
           /\ pg.info.error = "DiagramSyntaxError"
           /\ pg.info.left = first - 1
           /\ pg.info.right = Len(d)
      /\ (parseAccepted /\ marks = {}) => pg.info.combineMethod \in {"none", "compound"}

\* C17 happens: 'xo3xo&#xt' was accepted as a lace tower of two subpolytopes
C17_Witness ==
  /\ parseAccepted
  /\ pg.diagram = <<"x", "o", "3", "x", "o", "&", "#", "x", "t">>
  /\ pg.info.combineMethod = "lace tower"
  /\ Len(pg.info.subpolytopes) = 2

\* C18: node groups of differing sizes make the parser fail; with a common
\* size k and no lace indicator, k = 1 gives combineMethod 'none' and one
\* subpolytope, k > 1 gives 'compound' and k subpolytopes; with a lace
\* indicator and k > 1 the kind is the lace kind, and with k = 1 the parser
\* fails.
C18_NodeGroups ==
  LET d == pg.diagram
      marks == { i \in 1..(Len(d) - 1) : d[i] = "&" /\ d[i + 1] = "#" }
      laced == marks # {}
      last == IF laced THEN (CHOOSE i \in marks : \A j \in marks : i <= j) - 1 ELSE Len(d)
      node(i) == /\ i \in 1..last
                 /\ d[i] \in Range(VALID_NODES)
                 /\ (i = 1 \/ d[i - 1] # "*")
      starts == { i \in 1..last : node(i) /\ ~node(i - 1) }
      size(i) == Cardinality({ j \in i..last : \A k \in i..j : node(k) })
      sizes == { size(i) : i \in starts }
      laceKinds == {"lace prism", "lace tower", "lace tegum", "lace ring"}
      \* no character the counting loop refuses
      valid == \A i \in 1..Len(d) :
                 \/ d[i] \in Range(VALID_NODES) \cup Range(INT_CHARS) \cup Range(OTHER_CHARS)
                 \/ (i > 1 /\ d[i - 1] = "*")
  IN  pg.pc # "start" =>
        /\ Cardinality(sizes) > 1 => pg.info.thrown /\ pg.info.error = "DiagramSyntaxError"
        /\ (Cardinality(sizes) > 1 /\ ~laced /\ valid) =>
             /\ pg.info.left = 0 /\ pg.info.right = Len(d)
             /\ pg.info.details[1] = "All nodes groups must have the same size"
        /\ (laced /\ sizes = {1}) => pg.info.thrown /\ pg.info.error = "DiagramSyntaxError"
        /\ (~pg.info.thrown /\ ~laced) =>
             /\ Cardinality(sizes) = 1
             /\ sizes = {1} => (/\ pg.info.combineMethod = "none"
                                /\ Len(pg.info.subpolytopes) = 1)
             /\ sizes # {1} => (/\ pg.info.combineMethod = "compound"
                                /\ sizes = {Len(pg.info.subpolytopes)})
        /\ (~pg.info.thrown /\ laced) =>
             /\ Cardinality(sizes) = 1
             /\ sizes # {1}
             /\ sizes = {Len(pg.info.subpolytopes)}
             /\ pg.info.combineMethod \in laceKinds

\* C18 happens: 'xo3ox' was accepted as a compound of two subpolytopes
C18_Witness ==
  /\ parseAccepted
  /\ pg.diagram = <<"x", "o", "3", "o", "x">>
  /\ pg.info.combineMethod = "compound"
  /\ Len(pg.info.subpolytopes) = 2

\* C19: in every accepted diagram of n nodes, each node index 0..n-1 is
\* reached exactly once, so the offsets, active, dual and snub arrays of each
\* subpolytope have exactly n entries, also when nodes follow an edge that
\* ends in a virtual node.
C19_EveryNodeReachedOnce ==
  parseAccepted =>
    \A k \in 1..Len(pg.info.subpolytopes) :
      LET sub == pg.info.subpolytopes[k]
          n == Len(pg.info.symmetryMatrix)
      IN  /\ Len(sub.offsets) = n
          /\ Len(sub.active) = n
          /\ Len(sub.dual) = n
          /\ Len(sub.snub) = n

\* C19 fails here: 'x3*ao' was accepted with two nodes; the node after the
\* virtual node was stored at index 0 again, so offsets has one entry and
\* active has two, both describing node 0
C19_Witness ==
  /\ parseAccepted
  /\ pg.diagram = <<"x", "3", "*", "a", "o">>
  /\ Len(pg.info.symmetryMatrix) = 2
  /\ Len(pg.info.subpolytopes[1].offsets) = 1
  /\ pg.info.subpolytopes[1].active = <<TRUE, FALSE>>

(***************************************************************************)
(* Properties of the table while it is being solved                        *)
(***************************************************************************)
\* C20, as stated: during solving, between the primitive operations define,
\* deduce and coincidence, every defined entry of every row, the rows of dead
\* cosets included, is mirrored: table[a][g] = b if and only if
\* table[b][inv(g)] = a.
C20_EveryRowMirrored ==
  \A a \in 0..(Len(table) - 1) : \A g \in 0..(genCount - 1) :
    table[a + 1][g + 1] # Undef =>
      table[table[a + 1][g + 1] + 1][inv(isCoxeter, g) + 1] = a

\* C20, amended: the same for the rows of the living cosets: table[a][g] = b
\* with a alive implies table[b][inv(g)] = a, in every state of solve(), the
\* states inside a coincidence cascade included.
C20_LivingRowsMirrored ==
  \A a \in 0..(Len(table) - 1) : \A g \in 0..(genCount - 1) :
    (isAlive(equivalence, a) /\ table[a + 1][g + 1] # Undef) =>
      LET b == table[a + 1][g + 1]
      IN  /\ b \in 0..(Len(table) - 1)
          /\ table[b + 1][inv(isCoxeter, g) + 1] = a

\* C20 happens: inside a coincidence cascade with cosets still queued, the
\* row of a dead coset holds an entry its target no longer returns, while a
\* living coset holds an entry into a dead one
C20_Witness ==
  /\ pc = "coincidence"
  /\ coin.dead # Undef
  /\ deadQueue # << >>
  /\ \E a \in 0..(Len(table) - 1) : \E g \in 0..(genCount - 1) :
       /\ ~isAlive(equivalence, a)
       /\ table[a + 1][g + 1] # Undef
       /\ table[table[a + 1][g + 1] + 1][inv(isCoxeter, g) + 1] # a
  /\ \E a \in 0..(Len(table) - 1) : \E g \in 0..(genCount - 1) :
       /\ isAlive(equivalence, a)
       /\ table[a + 1][g + 1] # Undef
       /\ ~isAlive(equivalence, table[a + 1][g + 1])

\* C21: in every state of solve(), equivalence[i] <= i for every coset i; a
\* merge of two distinct representatives kills the larger index and keeps the
\* smaller one, so coset 0 is never dead; _rep(i) returns the smallest index
\* of i's class, which is its one living coset, and changes no class.
C21_EquivalenceOrdered ==
  LET n == Len(equivalence)
      root(i) == repRoot(equivalence, i)
  IN  /\ \A i \in 0..(n - 1) : equivalence[i + 1] \in 0..i
      /\ n > 0 => isAlive(equivalence, 0)
      /\ \A i \in 0..(n - 1) :
           ~isAlive(equivalence, i) =>
             LET r == rep(equivalence, i)
             IN  /\ r.r = root(i)
                 /\ isAlive(r.eq, r.r)
                 /\ Len(r.eq) = n
                 /\ \A j \in 0..(n - 1) :
                      /\ repRoot(r.eq, j) = root(j)
                      /\ root(j) = r.r => (r.r <= j /\ (isAlive(equivalence, j) => j = r.r))
      /\ \A a \in {scan.lv, scan.rv, hlt.current} \cap 0..(n - 1) : \A b \in 0..(n - 1) :
           LET m == merge(equivalence, deadQueue, a, b)
               lo == Min(root(a), root(b))
               hi == Max(root(a), root(b))
           IN  IF lo = hi THEN m.dq = deadQueue /\ \A j \in 0..(n - 1) : repRoot(m.eq, j) = root(j)
               ELSE /\ m.dq = Append(deadQueue, hi)
                    /\ m.eq[hi + 1] = lo
                    /\ isAlive(m.eq, lo)
                    /\ \A j \in 0..(n - 1) :
                         repRoot(m.eq, j) = IF root(j) = hi THEN lo ELSE root(j)

\* C21 happens: inside a coincidence cascade a dead coset points to another
\* dead coset, so that _rep compresses its chain, and a coset is still queued
C21_Witness ==
  /\ pc = "coincidence"
  /\ deadQueue # << >>
  /\ \E i \in 0..(Len(equivalence) - 1) :
       /\ equivalence[i + 1] # i
       /\ ~isAlive(equivalence, equivalence[i + 1])

\* C22: no coset is scanned once dead: every _scanAndFill(c, word) that _hlt
\* calls has c alive at the call (c is 0 in the seed loop and current in the
\* main loop), also after an earlier relator of the same iteration killed
\* current, and no row-completing define is made for a dead coset.
C22_NoDeadCosetScanned ==
  [][ /\ (pc \in {"hlt_seed", "hlt_rels"} /\ pc' = "scan") =>
           /\ scan'.lv = (IF pc = "hlt_seed" THEN 0 ELSE hlt.current)
           /\ scan'.rv = scan'.lv
           /\ isAlive(equivalence, scan'.lv)
      /\ (pc = "hlt_rels" /\ ~isAlive(equivalence, hlt.current)) =>
           (pc' = "hlt_fill" /\ table' = table)
      /\ (pc = "hlt_fill" /\ table' # table) =>
           /\ isAlive(equivalence, hlt.current)
           /\ Len(table') = Len(table) + 1
           /\ \E g \in 0..(genCount - 1) :
                /\ table[hlt.current + 1][g + 1] = Undef
                /\ table'[hlt.current + 1][g + 1] = Len(table)
      /\ (pc = "hlt_fill" /\ ~isAlive(equivalence, hlt.current)) =>
           (pc' = "hlt_loop" /\ hlt'.current = hlt.current + 1 /\ table' = table)
    ]_vars

\* C22 happens: a relator scan killed current while relators are left to scan
C22_Witness ==
  /\ pc = "hlt_rels"
  /\ ~isAlive(equivalence, hlt.current)
  /\ hlt.idx < Len(relations)
  /\ hlt.idx > 0

\* C23: a coincidence settles completely before scanning resumes: whenever
\* _coincidence has returned, and so in every state outside a cascade, the
\* dead queue is empty and no entry in the row of a living coset refers to a
\* dead coset, however many further coincidences the first one triggered.
C23_CoincidenceSettles ==
  pc # "coincidence" =>
    /\ deadQueue = << >>
    /\ coin = NoCoin
    /\ \A a \in 0..(Len(table) - 1) : \A g \in 0..(genCount - 1) :
         (isAlive(equivalence, a) /\ table[a + 1][g + 1] # Undef) =>
           /\ table[a + 1][g + 1] \in 0..(Len(table) - 1)
           /\ isAlive(equivalence, table[a + 1][g + 1])

\* C23 happens: _coincidence(lv, rv) has returned to _hlt; the larger of the
\* two cosets is dead and a further coset died into the same class
C23_Witness ==
  /\ pc \in {"hlt_seed", "hlt_rels"}
  /\ scan.lv # scan.rv
  /\ ~isAlive(equivalence, Max(scan.lv, scan.rv))
  /\ \E d \in 0..(Len(equivalence) - 1) :
       /\ d \notin {scan.lv, scan.rv}
       /\ ~isAlive(equivalence, d)
       /\ repRoot(equivalence, d) = repRoot(equivalence, scan.lv)

\* C24: _compress renumbers the living cosets 0..k-1 in ascending original
\* order and keeps the action: with f the map from each living original index
\* to its new index, the old entry table[a][g] = b of a living a gives the
\* new entry table[f(a)][g] = f(b), and the new table has exactly k rows.
C24_CompressKeepsAction ==
  [][ (pc = "compress" /\ pc' = "returned") =>
        LET living == { a \in 0..(Len(table) - 1) : isAlive(equivalence, a) }
            f(a) == Cardinality({ b \in living : b < a })
        IN  /\ Len(table') = Cardinality(living)
            /\ equivalence' = [i \in 1..Cardinality(living) |-> i - 1]
            /\ \A a \in living : \A g \in 0..(genCount - 1) :
                 /\ table[a + 1][g + 1] \in living
                 /\ table'[f(a) + 1][g + 1] = f(table[a + 1][g + 1])
    ]_vars

\* C24 happens: solve() returned after _compress dropped dead rows, the
\* pointer of the main loop having ended beyond the rows that are left
C24_Witness ==
  /\ pc = "returned" /\ isSolved
  /\ hlt.current >= Len(table) + 2
  /\ Len(table) >= 4

\* C26: solve(maxIterations) fails only if the enumeration is not finished
\* within the bound: when the pointer of the main loop reaches the end of the
\* table after k iterations with k <= maxIterations, k = maxIterations
\* included, _hlt returns to solve, which goes on to _compress, and
\* 'Iteration limit exceeded' is not thrown.
C26_FinishedWithinBoundReturns ==
  [][ (pc = "hlt_loop" /\ hlt.current >= Len(table) /\ hlt.iter <= hlt.MAX_ITER) =>
        (pc' = "compress" /\ thrown' = "none")
    ]_vars

\* C26 fails here: the pointer reached the end of a table whose rows are all
\* complete after exactly MAX_ITER iterations, and solve threw
C26_Witness ==
  /\ pc = "threw"
  /\ thrown = ErrIterationLimit
  /\ hlt.MAX_ITER > 0
  /\ hlt.iter = hlt.MAX_ITER
  /\ hlt.current = Len(table)
  /\ ~isSolved
  /\ \A a \in 0..(Len(table) - 1) : \A g \in 0..(genCount - 1) :
       isAlive(equivalence, a) /\ table[a + 1][g + 1] # Undef

\* C27: solve(maxIterations) always terminates: the main loop ends because the
\* pointer reaches the end of the table or because maxIterations iterations
\* were made; each _scanAndFill over a non-empty word returns after at most
\* |word| - 1 defines, and its own throw is reached for the empty word only;
\* every coincidence cascade empties the dead queue after finitely many
\* steps.  A run stops short of this only at the MaxCosets rows of the model.
C27_SolveTerminates ==
  /\ []((pc = "scan" /\ scan.word # << >>) => scan.iter <= Len(scan.word) - 1)
  /\ [](scan.iter > Len(scan.word) => scan.word = << >>)
  /\ [](pc = "hlt_loop" => hlt.iter <= hlt.MAX_ITER)
  /\ []<>(\/ pc \in {"idle", "returned", "threw"}
          \/ pc \in {"scan", "hlt_fill"} /\ Len(table) >= MaxCosets)
  /\ (pc = "coincidence") ~> (pc # "coincidence" /\ deadQueue = << >>)
  /\ (pc = "scan") ~> (pc # "scan" \/ Len(table) >= MaxCosets)

\* C27 happens: solve() returned after a main loop that passed over dead
\* cosets, its last scan being of a non-empty word
C27_Witness ==
  /\ pc = "returned" /\ isSolved
  /\ scan.word # << >>
  /\ scan.iter >= 1
  /\ hlt.iter < hlt.MAX_ITER
  /\ hlt.current > Len(table)
  /\ deadQueue = << >>

\* C28: after solve() returns, every relator acts as the identity on every
\* coset: applyWord(c, r) = c for every coset c in [0, length) and every
\* relation word r given to the constructor.
C28_RelatorsFixEveryCoset ==
  solveReturned =>
    \A c \in 0..(length(table) - 1) : \A k \in 1..Len(relations) :
      applyWord(table, alphabet, c,
                [j \in 1..Len(relations[k]) |-> alphabet[relations[k][j] + 1]], 1)
        = [thrown |-> FALSE, value |-> c]

\* C28 happens: a solved table of twelve cosets or more with a relator of six
\* letters or more that moves coset 0
C28_Witness ==
  /\ solveReturned
  /\ length(table) >= 12
  /\ \E k \in 1..Len(relations) :
       /\ Len(relations[k]) >= 6
       /\ getEntry(table, 0, relations[k][1]) # 0

\* C29: at the start of every iteration of the main loop of _hlt, with
\* pointer current, every living coset below current has a complete row; the
\* coincidences processed later leave no hole in the row of a living coset
\* that was processed already: the same holds whenever a scan has returned
\* to the loop.
C29_ProcessedRowsComplete ==
  pc \in {"hlt_loop", "hlt_rels", "hlt_fill"} =>
    \A a \in 0..(Min(hlt.current, Len(table)) - 1) :
      isAlive(equivalence, a) =>
        \A g \in 0..(genCount - 1) :
          table[a + 1][g + 1] \in 0..(Len(table) - 1)

\* C29 happens: an iteration starts after a coset below the pointer has died
\* in a coincidence, with living cosets other than 0 below the pointer
C29_Witness ==
  /\ pc = "hlt_loop"
  /\ hlt.current >= 3
  /\ hlt.current < Len(table)
  /\ \E d \in 1..(hlt.current - 1) : \E a \in (d + 1)..(hlt.current - 1) :
       ~isAlive(equivalence, d) /\ isAlive(equivalence, a)

C30_TesseractIsGenerated ==
  pg.diagram = <<"x","4","o","3","o","3","o">> =>
    /\ pg.pc # "threw"
    /\ pg.pc = "returned" =>
         /\ Len(pg.vertices) = 16
         /\ Len(pg.edges) = 32
         /\ Len(pg.faces) = 24
         /\ Len(pg.cells) = 8
         /\ \A c \in 1..Len(pg.cells) :
              LET cell == pg.cells[c]
              IN  /\ Len(cell) = 6
                  /\ \A k \in 1..6 : cell[k] \in 0..(Len(pg.faces) - 1)
                  /\ \A k \in 1..6 : \A l \in 1..6 : k # l => cell[k] # cell[l]

\* C30 happens: polygen('x4o3o3o') returned a polytope with cells
C30_Witness ==
  /\ pg.diagram = <<"x","4","o","3","o","3","o">>
  /\ pg.pc = "returned"
  /\ Len(pg.cells) = 8
  /\ Len(pg.cells[8]) = 6

====
